---- MODULE Spec2Model ----
(***************************************************************************)
(* The resumable workflow of MrIbrahem/status: the StateManager            *)
(* (workflow/state_manager.py), the step functions (workflows/step1,       *)
(* workflows/step2, workflow/step3_generate_reports) and the runner        *)
(* (workflows/runner.py).                                                  *)
(*                                                                         *)
(* Python values are tagged records [t, v]: None, lists and dicts.  The    *)
(* keys of step_data are strings, modelled as sequences of characters, so  *)
(* that str(step), the "_partial" suffix, split("_") and int() are the     *)
(* computations the code performs.  Timestamps are abstracted to one       *)
(* token: datetime.now().isoformat() is Now.                               *)
(*                                                                         *)
(* An action ends at a durable write (a save of the state file): the       *)
(* persisted document can be observed, and the process can be restarted,   *)
(* between any two writes.                                                 *)
(*                                                                         *)
(* Eight specifications share the variables, each leaving the others'      *)
(* variables alone: Spec, the workflow; SpecDb, a Database object          *)
(* (services/database.py, services/analytics_db.py) and the with           *)
(* statements on it; SpecProc, a call of process_language                  *)
(* (services/processor.py) or of _process_titles_for_language              *)
(* (workflow/step2_process_languages.py); SpecOrch, a call of              *)
(* WorkflowOrchestrator.run_complete_workflow (workflow.py) or of          *)
(* process_languages (workflow/step2_process_languages.py); SpecTarget,    *)
(* the resolution of a site code to a database and a host                  *)
(* (services/analytics_db.py, services/db_mapping.py); SpecReport, a call  *)
(* of generate_global_report (services/reports.py); SpecGather, a call of  *)
(* process_languages up to the visit of each language                      *)
(* (workflow/step2_process_languages.py); SpecUpload, a call of            *)
(* upload_all_reports (workflow/step4_uploader.py).                        *)
(***************************************************************************)
EXTENDS Integers, Sequences, FiniteSets, TLC

VARIABLES
    state,          \* StateManager.state, the in-memory document
    file,           \* the state file on disk
    pc,             \* where the runner's process is
    mode,           \* "run_all" or "run_step" (or "none" when idle)
    cur,            \* the step the runner is at
    start_step,     \* run_all's start_step
    force,          \* the step function's force argument
    year,           \* argument year
    languages,      \* argument languages
    titles,         \* run_all's local titles
    all_editors,    \* run_all's local all_editors
    arg,            \* the previous step's output as the step function uses it
    processed_langs,\* _process_languages' processed_langs
    editors,        \* _process_languages' all_editors
    idx,            \* position of _process_languages' loop in languages
    result,         \* the value the step function is about to store and return
    last_call,      \* the last StateManager call that returned
    raised,         \* the step that raised in the last run_all, if it is the last operation
    resuming,       \* the raised step this run_all(resume=True) resumes after
    started_steps,  \* the steps started by the running operation, in the order of their start
    forced_completed, \* the completed steps the running run_all(force_from_step) has reset
    current_before, \* current_step as it was when the step began whose body is running
    processed_ok,   \* languages processed successfully since step 2 was last completed or reset
    credential_file,\* the file at CREDENTIAL_FILE
    via,            \* the class whose scope is used: "Database" or "DatabaseAnalytics"
    db_pc,          \* where the user of the Database object is
    connection,     \* Database.connection: NoConnection or the handle pymysql.connect returned
    attempt,        \* _connect's loop variable
    attempt_log,    \* the outcomes of pymysql.connect in the last _connect, in order
    slept,          \* the arguments of time.sleep in the last _connect, in order
    opened,         \* the number of connections pymysql.connect has returned
    closes,         \* for each connection, the number of calls of its close()
    queries,        \* the number of cursor.execute calls in the scope
    db_raised,      \* the exception the last call on the object raised, and the method it came from
    body_exc,       \* the exception that ends the body of the with statement
    exit_args,      \* the exc_type Database.__exit__ was last called with
    p_call,         \* the call on the processor: function, lang, titles, batch_size
    p_pc,           \* where that call is
    batch_num,      \* _process_titles_for_language's batch_num, an offset into titles
    title_editors,  \* _process_titles_for_language's editors
    patch_batches,  \* process_language_patch's batches
    patch_num,      \* process_language_patch's batch_num
    patch_editors,  \* process_language_patch's editors
    replies,        \* the rows db.execute returned to the call, query by query
    p_scope,        \* the scope of DatabaseAnalytics(lang): "none", "open" or "closed"
    p_result,       \* what the call returned, or the exception it raised
    o_call,         \* the call on the orchestrator: function and languages to process
    o_pc,           \* where that call is
    o_db_mapping,   \* process_languages' db_mapping: the language codes it has a name for
    o_idx,          \* position of process_languages' loop in the languages
    o_all_editors,  \* process_languages' all_editors, its items in insertion order
    o_log,          \* for each language visited: the titles loaded and how the visit ended
    o_invoked,      \* the steps run_complete_workflow has invoked, in order
    o_raised,       \* the steps that raised, in order
    o_result,       \* what the call returned, or that it raised
    o_global,       \* the value of aggregate_editors(all_editors) in the final summary
    mapping_file,   \* the file db_mapping.json
    mapping_cache,  \* the slot of get_database_mapping's lru_cache
    fetches,        \* the number of calls of fetch_database_mapping
    fetched_ok,     \* the number of those calls that returned a mapping
    site_code,      \* the argument of the last call of get_database_info
    target,         \* what that call returned, or the exception it raised
    r_input,        \* generate_global_report's all_editors, its items in insertion order
    r_pc,           \* where generate_global_report is
    r_idx,          \* position of the running loop
    r_global_editors, \* generate_global_report's global_editors
    r_editors_by_wiki, \* generate_global_report's editors_by_wiki
    r_all_editors_status, \* generate_global_report's all_editors_status
    r_rows,         \* the rows work_all_editors has written to the table
    g_call,         \* the call of process_languages: languages, their title files, sort_descending
    g_pc,           \* where that call is
    g_idx,          \* position of the running loop
    languages_titles, \* gather_language_titles' languages_titles
    g_order,        \* the languages process_languages has visited, in order
    u_files,        \* the report files _get_report_files returns
    u_pc,           \* where upload_all_reports is
    u_attempted,    \* the files _upload_report was called with, in order
    u_results       \* upload_all_reports' results

workflow_vars == <<state, file, pc, mode, cur, start_step, force, year, languages, titles,
          all_editors, arg, processed_langs, editors, idx, result, last_call,
          raised, resuming, started_steps, current_before,
          forced_completed, processed_ok>>

database_vars == <<credential_file, via, db_pc, connection, attempt, attempt_log, slept,
                   opened, closes, queries, db_raised, body_exc, exit_args>>

processor_vars == <<p_call, p_pc, batch_num, title_editors, patch_batches, patch_num,
                    patch_editors, replies, p_scope, p_result>>

orchestrator_vars == <<o_call, o_pc, o_db_mapping, o_idx, o_all_editors, o_log,
                       o_invoked, o_raised, o_result, o_global>>

target_vars == <<mapping_file, mapping_cache, fetches, fetched_ok, site_code, target>>

report_vars == <<r_input, r_pc, r_idx, r_global_editors, r_editors_by_wiki,
                 r_all_editors_status, r_rows>>

gather_vars == <<g_call, g_pc, g_idx, languages_titles, g_order>>

upload_vars == <<u_files, u_pc, u_attempted, u_results>>

\* What the workflow's steps leave alone.
outside_workflow == <<database_vars, processor_vars, orchestrator_vars, target_vars,
                      report_vars, gather_vars, upload_vars>>

\* What the calls on a Database object leave alone.
outside_database == <<workflow_vars, processor_vars, orchestrator_vars, target_vars,
                      report_vars, gather_vars, upload_vars>>

\* What the calls on the processor leave alone.
outside_processor == <<workflow_vars, database_vars, orchestrator_vars, target_vars,
                       report_vars, gather_vars, upload_vars>>

\* What the calls on the orchestrator leave alone.
outside_orchestrator == <<workflow_vars, database_vars, processor_vars, target_vars,
                          report_vars, gather_vars, upload_vars>>

\* What the resolution of a database target leaves alone.
outside_target == <<workflow_vars, database_vars, processor_vars, orchestrator_vars,
                    report_vars, gather_vars, upload_vars>>

\* What the generation of the global report leaves alone.
outside_report == <<workflow_vars, database_vars, processor_vars, orchestrator_vars,
                    target_vars, gather_vars, upload_vars>>

\* What the gathering of the languages' titles leaves alone.
outside_gather == <<workflow_vars, database_vars, processor_vars, orchestrator_vars,
                    target_vars, report_vars, upload_vars>>

\* What the upload of the reports leaves alone.
outside_upload == <<workflow_vars, database_vars, processor_vars, orchestrator_vars,
                    target_vars, report_vars, gather_vars>>

vars == <<workflow_vars, outside_workflow>>

----------------------------------------------------------------------------
(* Bounds and inputs *)

MaxLangs == 2
MaxErrors == 2
MaxOpened == 2
MaxQueries == 2
MaxTitles == 5
MaxBatchSize == 2
MaxFetches == 2
MaxRows == 2
MaxGathered == 3
MaxFileTitles == 2
MaxReports == 3
TOTAL_STEPS == 3
MAX_RETRIES == 3
DEFAULT_BATCH_SIZE == 100

LangCodes == {"en", "fr"}
Years == {2024}
Steps == 1..TOTAL_STEPS
LanguageLists == UNION {[1..n -> LangCodes] : n \in 0..MaxLangs}

----------------------------------------------------------------------------
(* Python values *)

None == [t |-> "None", v |-> <<>>]
List(s) == [t |-> "list", v |-> s]
Dict(f) == [t |-> "dict", v |-> f]
IsNone(x) == x.t = "None"

NoTime == "null"
Now == "ts"

EmptyDict == <<>>
Put(f, k, x) == [y \in DOMAIN f \cup {k} |-> IF y = k THEN x ELSE f[y]]
Del(f, k) == [y \in DOMAIN f \ {k} |-> f[y]]
Get(f, k) == IF k \in DOMAIN f THEN f[k] ELSE None
Range(s) == {s[i] : i \in 1..Len(s)}
SelectSeqLt(s, n) == SelectSeq(s, LAMBDA x : x < n)

Max(S) == CHOOSE m \in S : \A x \in S : x <= m

----------------------------------------------------------------------------
(* Keys of step_data: str(step), f"{step}_partial", int(k.split("_")[0]) *)

Digits == <<"0", "1", "2", "3", "4", "5", "6", "7", "8", "9">>

RECURSIVE str(_)
str(n) == IF n < 10 THEN <<Digits[n + 1]>>
          ELSE str(n \div 10) \o <<Digits[(n % 10) + 1]>>

partial_key(step) == str(step) \o <<"_", "p", "a", "r", "t", "i", "a", "l">>

\* k.split("_")[0]: the characters before the first underscore
split_first(k) ==
    LET under == {i \in 1..Len(k) : k[i] = "_"}
    IN  IF under = {} THEN k
        ELSE SubSeq(k, 1, (CHOOSE i \in under : \A j \in under : i <= j) - 1)

DigitValue(c) == (CHOOSE i \in 1..10 : Digits[i] = c) - 1

RECURSIVE int(_)
int(s) == IF Len(s) = 0 THEN 0
          ELSE 10 * int(SubSeq(s, 1, Len(s) - 1)) + DigitValue(s[Len(s)])

----------------------------------------------------------------------------
(* StateManager.  A manager is [state, file]: the in-memory document and   *)
(* the state file; every method maps a manager to the manager it leaves.   *)

NoFile == [exists |-> FALSE, doc |-> <<>>]

\* json.dump / json.load: every value of the document is JSON-native (int,
\* str, list, str-keyed dict, None), which the round trip preserves.
json_dump(s) == [exists |-> TRUE, doc |-> s]
json_load(f) == f.doc

_create_empty_state ==
    [current_step |-> 0,
     completed_steps |-> <<>>,
     step_data |-> EmptyDict,
     last_updated |-> NoTime,
     started_at |-> NoTime,
     errors |-> <<>>]

_load_state(f) == IF f.exists THEN json_load(f) ELSE _create_empty_state

save(sm) ==
    LET s == [sm.state EXCEPT !.last_updated = Now]
    IN  [state |-> s, file |-> json_dump(s)]

\* Mutant: starting a step drops the completed steps from it on.
mark_step_started_dropping(sm, step) ==
    LET s1 == [sm.state EXCEPT !.current_step = step,
                               !.completed_steps = SelectSeqLt(@, step)]
        s2 == IF s1.started_at = NoTime THEN [s1 EXCEPT !.started_at = Now] ELSE s1
    IN  save([sm EXCEPT !.state = s2])

\* Mutant: the step is not recorded as current when it starts.
mark_step_started_keeping(sm, step) ==
    LET s1 == sm.state
        s2 == IF s1.started_at = NoTime THEN [s1 EXCEPT !.started_at = Now] ELSE s1
    IN  save([sm EXCEPT !.state = s2])

mark_step_started(sm, step) ==
    LET s1 == [sm.state EXCEPT !.current_step = step]
        s2 == IF s1.started_at = NoTime THEN [s1 EXCEPT !.started_at = Now] ELSE s1
    IN  save([sm EXCEPT !.state = s2])

\* Mutant: the step is appended whether or not it is completed already.
mark_step_completed_appending(sm, step, data) ==
    LET s0 == sm.state
        s1 == [s0 EXCEPT !.completed_steps = Append(s0.completed_steps, step),
                         !.step_data = Put(s0.step_data, str(step), data),
                         !.current_step = step + 1]
    IN  save([sm EXCEPT !.state = s1])

mark_step_completed(sm, step, data) ==
    LET s0 == sm.state
        cs == IF step \in Range(s0.completed_steps) THEN s0.completed_steps
              ELSE Append(s0.completed_steps, step)
        s1 == [s0 EXCEPT !.completed_steps = cs,
                         !.step_data = Put(s0.step_data, str(step), data),
                         !.current_step = step + 1]
    IN  save([sm EXCEPT !.state = s1])

is_step_completed(sm, step) == step \in Range(sm.state.completed_steps)

get_step_data(sm, step) == Get(sm.state.step_data, str(step))

set_partial_data(sm, step, data) ==
    LET s1 == [sm.state EXCEPT !.step_data = Put(@, partial_key(step), data)]
    IN  save([sm EXCEPT !.state = s1])

get_partial_data(sm, step) == Get(sm.state.step_data, partial_key(step))

clear_partial_data(sm, step) ==
    IF partial_key(step) \in DOMAIN sm.state.step_data
    THEN save([sm EXCEPT !.state.step_data = Del(@, partial_key(step))])
    ELSE sm

\* Mutant: the error is appended in memory and not saved.
log_error_unsaved(sm, step, error) ==
    [sm EXCEPT !.state.errors = Append(@, [step |-> step, error |-> error, timestamp |-> Now])]

log_error(sm, step, error) ==
    LET s1 == [sm.state EXCEPT
                 !.errors = Append(@, [step |-> step, error |-> error, timestamp |-> Now])]
    IN  save([sm EXCEPT !.state = s1])

reset(sm) == save([sm EXCEPT !.state = _create_empty_state])

\* Mutant: the data of the step itself is kept (> for >=).
reset_from_step_keeping(sm, step) ==
    LET s0 == sm.state
        keys_to_remove == {k \in DOMAIN s0.step_data : int(split_first(k)) > step}
        s1 == [s0 EXCEPT !.completed_steps = SelectSeqLt(@, step),
                         !.current_step = step,
                         !.step_data = [k \in DOMAIN @ \ keys_to_remove |-> @[k]]]
    IN  save([sm EXCEPT !.state = s1])

\* Mutant: the error log is emptied as well.
reset_from_step_forgetting(sm, step) ==
    LET s0 == sm.state
        keys_to_remove == {k \in DOMAIN s0.step_data : int(split_first(k)) >= step}
        s1 == [s0 EXCEPT !.completed_steps = SelectSeqLt(@, step),
                         !.current_step = step,
                         !.errors = <<>>,
                         !.step_data = [k \in DOMAIN @ \ keys_to_remove |-> @[k]]]
    IN  save([sm EXCEPT !.state = s1])

\* Mutant: only the step itself is removed (= for >=).
reset_from_step_single(sm, step) ==
    LET s0 == sm.state
        keys_to_remove == {k \in DOMAIN s0.step_data : int(split_first(k)) = step}
        s1 == [s0 EXCEPT !.completed_steps = SelectSeq(@, LAMBDA x : x # step),
                         !.current_step = step,
                         !.step_data = [k \in DOMAIN @ \ keys_to_remove |-> @[k]]]
    IN  save([sm EXCEPT !.state = s1])

\* Mutant: the steps from this one on stay completed.
reset_from_step_completed(sm, step) ==
    LET s0 == sm.state
        keys_to_remove == {k \in DOMAIN s0.step_data : int(split_first(k)) >= step}
        s1 == [s0 EXCEPT !.current_step = step,
                         !.step_data = [k \in DOMAIN @ \ keys_to_remove |-> @[k]]]
    IN  save([sm EXCEPT !.state = s1])

reset_from_step(sm, step) ==
    LET s0 == sm.state
        keys_to_remove == {k \in DOMAIN s0.step_data : int(split_first(k)) >= step}
        s1 == [s0 EXCEPT !.completed_steps = SelectSeqLt(@, step),
                         !.current_step = step,
                         !.step_data = [k \in DOMAIN @ \ keys_to_remove |-> @[k]]]
    IN  save([sm EXCEPT !.state = s1])

\* Mutant: the highest completed step itself, not the one after it.
get_resume_point_last(sm) ==
    IF Len(sm.state.completed_steps) = 0 THEN 1
    ELSE Max(Range(sm.state.completed_steps))

\* Mutant: a run always continues at step 1.
get_resume_point_first(sm) == 1

get_resume_point(sm) ==
    IF Len(sm.state.completed_steps) = 0 THEN 1
    ELSE Max(Range(sm.state.completed_steps)) + 1

----------------------------------------------------------------------------
(* Database (services/database.py): credentials, connection with retries,  *)
(* the scope of the with statement.                                        *)

\* Strings of the credential file are sequences of characters.
startswith(s, prefix) ==
    Len(s) >= Len(prefix) /\ SubSeq(s, 1, Len(prefix)) = prefix

RECURSIVE strip(_)
strip(s) ==
    IF Len(s) = 0 THEN s
    ELSE IF s[1] = " " THEN strip(Tail(s))
    ELSE IF s[Len(s)] = " " THEN strip(SubSeq(s, 1, Len(s) - 1))
    ELSE s

\* s.split("="): the pieces between the "=" signs
RECURSIVE split_eq(_)
split_eq(s) ==
    LET eqs == {i \in 1..Len(s) : s[i] = "="}
    IN  IF eqs = {} THEN <<s>>
        ELSE LET first == CHOOSE i \in eqs : \A j \in eqs : i <= j
             IN  <<SubSeq(s, 1, first - 1)>> \o split_eq(SubSeq(s, first + 1, Len(s)))

User == <<"u", "s", "e", "r">>
Password == <<"p", "a", "s", "s", "w", "o", "r", "d">>

NoException == "none"
Loaded(creds, exc) == [credentials |-> creds, exc |-> exc]

\* The loop over the lines of the file; a line without "=" has no [1].
RECURSIVE credential_lines(_, _)
credential_lines(lines, credentials) ==
    IF Len(lines) = 0 THEN Loaded(credentials, NoException)
    ELSE LET line == strip(Head(lines))
         IN  IF startswith(line, User)
             THEN IF Len(split_eq(line)) < 2 THEN Loaded(credentials, "IndexError")
                  ELSE credential_lines(Tail(lines),
                                        Put(credentials, "user", strip(split_eq(line)[2])))
             ELSE IF startswith(line, Password)
             THEN IF Len(split_eq(line)) < 2 THEN Loaded(credentials, "IndexError")
                  ELSE credential_lines(Tail(lines),
                                        Put(credentials, "password", strip(split_eq(line)[2])))
             ELSE credential_lines(Tail(lines), credentials)

\* Mutant: whatever the file holds is taken as the credentials.
_load_credentials_unchecked(f) ==
    IF ~f.exists THEN Loaded(EmptyDict, NoException)
    ELSE LET parsed == credential_lines(f.lines, EmptyDict)
         IN  Loaded(parsed.credentials, NoException)

_load_credentials(f) ==
    IF ~f.exists THEN Loaded(EmptyDict, "FileNotFoundError")
    ELSE LET parsed == credential_lines(f.lines, EmptyDict)
         IN  IF parsed.exc # NoException THEN parsed
             ELSE IF "user" \notin DOMAIN parsed.credentials
                     \/ "password" \notin DOMAIN parsed.credentials
             THEN Loaded(parsed.credentials, "ValueError")
             ELSE parsed

\* The credential files: the lines of ~/replica.my.cnf and variants of it.
ClientLine == <<"[", "c", "l", "i", "e", "n", "t", "]">>
UserLine == <<"u", "s", "e", "r", " ", "=", " ", "s", "1">>
PasswordLine == <<"p", "a", "s", "s", "w", "o", "r", "d", "=", "p", "w">>
File(lines) == [exists |-> TRUE, lines |-> lines]
MissingFile == [exists |-> FALSE, lines |-> <<>>]
CredentialFiles ==
    {MissingFile,
     File(<<>>),
     File(<<ClientLine, UserLine, PasswordLine>>),
     File(<<PasswordLine, UserLine>>),
     File(<<ClientLine, UserLine>>),
     File(<<PasswordLine>>),
     File(<<User, PasswordLine>>)}

\* The outcomes of pymysql.connect and of cursor.execute
OperationalError == "OperationalError"
ProgrammingError == "ProgrammingError"
ConnectOutcomes == {"connected", OperationalError, ProgrammingError}
ExecuteOutcomes == {"rows", OperationalError, ProgrammingError}
BodyOutcomes == {NoException, "ValueError"}

\* except pymysql.err.OperationalError: the errors _connect handles.
\* Mutant: every error of a connection attempt is handled and retried.
HandledAlways(exc) == TRUE

Handled(exc) == exc = OperationalError

\* if attempt < MAX_RETRIES: another attempt follows.
\* Mutant: the last attempt is followed by a sleep too.
RetriesAfterLast(n) == n <= MAX_RETRIES

Retries(n) == n < MAX_RETRIES

\* wait_time = 2**attempt
\* Mutant: the backoff starts at one second.
wait_time_halved(n) == 2^(n - 1)

wait_time(n) == 2^n

NoConnection == 0
NotRaised == [exc |-> NoException, by |-> "none"]
Raised(exc, by) == [exc |-> exc, by |-> by]

\* Database.__exit__: close the connection, if there is one, and clear the handle.
\* Mutant: the handle is cleared and the connection is not closed.
__exit__unclosed(c, cl) == [connection |-> NoConnection, closes |-> cl]

__exit__(c, cl) ==
    IF c # NoConnection
    THEN [connection |-> NoConnection, closes |-> [cl EXCEPT ![c] = @ + 1]]
    ELSE [connection |-> c, closes |-> cl]

\* DatabaseAnalytics.__exit__ hands its arguments to the wrapped Database.
DatabaseAnalytics__exit__(c, cl, exc_type) ==
    [left |-> __exit__(c, cl), exc_type |-> exc_type]

\* A Database object after __init__, with the credential file f around it.
DatabaseNew(f, v) ==
    /\ credential_file = f
    /\ via = v
    /\ db_pc = "out"
    /\ connection = NoConnection
    /\ attempt = 0
    /\ attempt_log = <<>>
    /\ slept = <<>>
    /\ opened = 0
    /\ closes = <<>>
    /\ queries = 0
    /\ db_raised = NotRaised
    /\ body_exc = NoException
    /\ exit_args = NoException

----------------------------------------------------------------------------
(* EditorProcessor (services/processor.py) and the batching of             *)
(* workflow/step2_process_languages.py.  Editor names are sequences of     *)
(* characters; a row of a query result is [actor_name, count].             *)

\* s.split(sep) for a separator of one character
RECURSIVE split(_, _)
split(s, sep) ==
    LET at == {i \in 1..Len(s) : s[i] = sep}
    IN  IF at = {} THEN <<s>>
        ELSE LET first == CHOOSE i \in at : \A j \in at : i <= j
             IN  <<SubSeq(s, 1, first - 1)>> \o split(SubSeq(s, first + 1, Len(s)), sep)

UpperCase == <<"A", "B", "C", "D", "E", "F", "G", "H", "I", "J", "K", "L", "M",
               "N", "O", "P", "Q", "R", "S", "T", "U", "V", "W", "X", "Y", "Z">>
LowerCase == <<"a", "b", "c", "d", "e", "f", "g", "h", "i", "j", "k", "l", "m",
               "n", "o", "p", "q", "r", "s", "t", "u", "v", "w", "x", "y", "z">>

\* str.lower()
lower(s) ==
    [i \in 1..Len(s) |->
        IF \E n \in 1..26 : UpperCase[n] = s[i]
        THEN LowerCase[CHOOSE n \in 1..26 : UpperCase[n] = s[i]]
        ELSE s[i]]

\* sub in s
contains(s, sub) ==
    \E i \in 1..(Len(s) - Len(sub) + 1) : SubSeq(s, i, i + Len(sub) - 1) = sub

IsDigit(c) == \E n \in 1..10 : Digits[n] = c
IsHexDigit(c) == IsDigit(c) \/ \E n \in 1..6 : c = UpperCase[n] \/ c = LowerCase[n]

\* "$" of a regular expression matches at the end and before a final newline.
BeforeFinalNewline(s) ==
    IF Len(s) > 0 /\ s[Len(s)] = "\n" THEN SubSeq(s, 1, Len(s) - 1) ELSE s

\* ^\d{1,3}\.\d{1,3}\.\d{1,3}\.\d{1,3}$
ipv4_pattern(text) ==
    LET parts == split(BeforeFinalNewline(text), ".")
    IN  /\ Len(parts) = 4
        /\ \A n \in 1..4 :
              /\ Len(parts[n]) \in 1..3
              /\ \A i \in 1..Len(parts[n]) : IsDigit(parts[n][i])

\* ^([0-9a-fA-F]{0,4}:){7}[0-9a-fA-F]{0,4}$
ipv6_pattern(text) ==
    LET parts == split(BeforeFinalNewline(text), ":")
    IN  /\ Len(parts) = 8
        /\ \A n \in 1..8 :
              /\ Len(parts[n]) \in 0..4
              /\ \A i \in 1..Len(parts[n]) : IsHexDigit(parts[n][i])

\* Mutant: only the IPv4 pattern is tried.
is_ip_address_v4(text) == ipv4_pattern(text)

is_ip_address(text) == ipv4_pattern(text) \/ ipv6_pattern(text)

\* Mutant: the substring is looked for in the name as it is written.
is_bot_as_written(actor_name) == contains(actor_name, <<"b", "o", "t">>)

\* "bot" in actor_name.lower()
is_bot(actor_name) == contains(lower(actor_name), <<"b", "o", "t">>)

Row(actor_name, count) == [actor_name |-> actor_name, count |-> count]

\* The loop over the rows of one query result in process_language_patch.
RECURSIVE patch_rows(_, _)
patch_rows(eds, results) ==
    IF Len(results) = 0 THEN eds
    ELSE LET row == Head(results)
         IN  IF is_ip_address(row.actor_name) THEN patch_rows(eds, Tail(results))
             ELSE IF is_bot(row.actor_name) THEN patch_rows(eds, Tail(results))
             ELSE patch_rows(Put(eds, row.actor_name, row.count), Tail(results))

\* titles[i : j], with Python's offsets
Slice(ts, i, j) ==
    SubSeq(ts, i + 1, IF j > Len(ts) THEN Len(ts) ELSE j)

\* EditorProcessor._batch_titles
RECURSIVE batches_from(_, _, _)
batches_from(ts, batch_size, i) ==
    IF i >= Len(ts) THEN <<>>
    ELSE <<Slice(ts, i, i + batch_size)>> \o batches_from(ts, batch_size, i + batch_size)

\* Mutant: a last batch shorter than batch_size is left out.
_batch_titles_whole(ts, batch_size) ==
    batches_from(SubSeq(ts, 1, (Len(ts) \div batch_size) * batch_size), batch_size, 0)

_batch_titles(ts, batch_size) == batches_from(ts, batch_size, 0)

\* Mutant: the merge assigns the batch's count instead of adding it.
merge_batch_assigning(eds, batch_editors) ==
    [e \in DOMAIN eds \cup DOMAIN batch_editors |->
        IF e \in DOMAIN batch_editors THEN batch_editors[e] ELSE eds[e]]

\* The merge of _process_titles_for_language: for editor, count in batch_editors.items()
merge_batch(eds, batch_editors) ==
    [e \in DOMAIN eds \cup DOMAIN batch_editors |->
        IF e \in DOMAIN eds /\ e \in DOMAIN batch_editors THEN eds[e] + batch_editors[e]
        ELSE IF e \in DOMAIN eds THEN eds[e]
        ELSE batch_editors[e]]

\* if lang in ["ar", "en"]: the strategy that takes no titles
DirectLanguages == {"ar", "en"}

NoCallOnProcessor == [fn |-> "none", lang |-> "", titles |-> <<>>, batch_size |-> 0]
NoResult == [returned |-> FALSE, value |-> EmptyDict, exc |-> NoException]
Returned(value) == [returned |-> TRUE, value |-> value, exc |-> NoException]
RaisedBy(exc) == [returned |-> FALSE, value |-> EmptyDict, exc |-> exc]

\* The processor with the call c about to run (no call: c is NoCallOnProcessor).
ProcessorNew(c) ==
    /\ p_call = c
    /\ p_pc = IF c.fn = "none" THEN "idle" ELSE "process_language"
    /\ batch_num = 0
    /\ title_editors = EmptyDict
    /\ patch_batches = <<>>
    /\ patch_num = 0
    /\ patch_editors = EmptyDict
    /\ replies = <<>>
    /\ p_scope = "none"
    /\ p_result = NoResult

----------------------------------------------------------------------------
(* WorkflowOrchestrator (workflow.py), process_languages                   *)
(* (workflow/step2_process_languages.py) and                               *)
(* EditorProcessor.aggregate_editors (services/processor.py).  all_editors *)
(* is a dict: its items, [lang, editors], in insertion order.              *)

Item(lang, eds) == [lang |-> lang, editors |-> eds]

\* all_editors[lang] = editors
SetItem(items, lang, eds) ==
    IF \E i \in 1..Len(items) : items[i].lang = lang
    THEN [i \in 1..Len(items) |-> IF items[i].lang = lang THEN Item(lang, eds) ELSE items[i]]
    ELSE Append(items, Item(lang, eds))

\* lang in all_editors
HasItem(items, lang) == \E i \in 1..Len(items) : items[i].lang = lang

\* Mutant: a language's count replaces the count merged so far.
aggregate_language_assigning(global_editors, eds) ==
    [e \in DOMAIN global_editors \cup DOMAIN eds |->
        IF e \in DOMAIN eds THEN eds[e] ELSE global_editors[e]]

\* aggregate_editors' inner loop: for editor, count in editors.items()
aggregate_language(global_editors, eds) ==
    [e \in DOMAIN global_editors \cup DOMAIN eds |->
        IF e \in DOMAIN global_editors /\ e \in DOMAIN eds THEN global_editors[e] + eds[e]
        ELSE IF e \in DOMAIN global_editors THEN global_editors[e]
        ELSE eds[e]]

\* aggregate_editors' outer loop: for lang, editors in all_editors.items()
RECURSIVE aggregate_from(_, _)
aggregate_from(global_editors, items) ==
    IF Len(items) = 0 THEN global_editors
    ELSE aggregate_from(aggregate_language(global_editors, Head(items).editors), Tail(items))

aggregate_editors(items) == aggregate_from(EmptyDict, items)

NoCallOnOrchestrator == [fn |-> "none", langs |-> <<>>]
NotEnded == [kind |-> "none", code |-> 0]
ReturnCode(code) == [kind |-> "returned", code |-> code]
Propagated == [kind |-> "raised", code |-> 0]

\* The orchestrator with the call c about to run (no call: c is NoCallOnOrchestrator).
OrchestratorNew(c) ==
    /\ o_call = c
    /\ o_pc = IF c.fn = "run_complete_workflow" THEN "step1"
              ELSE IF c.fn = "process_languages" THEN "languages"
              ELSE "idle"
    /\ o_db_mapping = {}
    /\ o_idx = 1
    /\ o_all_editors = <<>>
    /\ o_log = <<>>
    /\ o_invoked = <<>>
    /\ o_raised = <<>>
    /\ o_result = NotEnded
    /\ o_global = EmptyDict

----------------------------------------------------------------------------
(* The resolution of a database target: DatabaseAnalytics.get_database_info *)
(* (services/analytics_db.py) and services/db_mapping.py.  Language codes  *)
(* and database names are sequences of characters; a mapping is a function *)
(* from codes to names.                                                    *)

\* s.replace(old, new) for strings of one character
replace(s, old, new) == [i \in 1..Len(s) |-> IF s[i] = old THEN new ELSE s[i]]

endswith(s, suffix) ==
    Len(s) >= Len(suffix) /\ SubSeq(s, Len(s) - Len(suffix) + 1, Len(s)) = suffix

\* s.removesuffix(suffix)
removesuffix(s, suffix) ==
    IF endswith(s, suffix) THEN SubSeq(s, 1, Len(s) - Len(suffix)) ELSE s

\* A dict literal as a function
DictOf(pairs) == [k \in {pr[1] : pr \in pairs} |-> (CHOOSE pr \in pairs : pr[1] = k)[2]]

\* get_database_name_for_language's pre_defined_db_mapping
pre_defined_db_mapping ==
    DictOf({
     <<<<"g", "s", "w">>,
       <<"a", "l", "s", "w", "i", "k", "i">>>>,
     <<<<"s", "g", "s">>,
       <<"b", "a", "t", "_", "s", "m", "g", "w", "i", "k", "i">>>>,
     <<<<"b", "a", "t", "-", "s", "m", "g">>,
       <<"b", "a", "t", "_", "s", "m", "g", "w", "i", "k", "i">>>>,
     <<<<"b", "e", "-", "t", "a", "r", "a", "s", "k">>,
       <<"b", "e", "_", "x", "_", "o", "l", "d", "w", "i", "k", "i">>>>,
     <<<<"b", "h", "o">>,
       <<"b", "h", "w", "i", "k", "i">>>>,
     <<<<"c", "b", "k">>,
       <<"c", "b", "k", "_", "z", "a", "m", "w", "i", "k", "i">>>>,
     <<<<"c", "b", "k", "-", "z", "a", "m">>,
       <<"c", "b", "k", "_", "z", "a", "m", "w", "i", "k", "i">>>>,
     <<<<"v", "r", "o">>,
       <<"f", "i", "u", "_", "v", "r", "o", "w", "i", "k", "i">>>>,
     <<<<"f", "i", "u", "-", "v", "r", "o">>,
       <<"f", "i", "u", "_", "v", "r", "o", "w", "i", "k", "i">>>>,
     <<<<"m", "a", "p", "-", "b", "m", "s">>,
       <<"m", "a", "p", "_", "b", "m", "s", "w", "i", "k", "i">>>>,
     <<<<"n", "d", "s", "-", "n", "l">>,
       <<"n", "d", "s", "_", "n", "l", "w", "i", "k", "i">>>>,
     <<<<"n", "b">>,
       <<"n", "o", "w", "i", "k", "i">>>>,
     <<<<"r", "u", "p">>,
       <<"r", "o", "a", "_", "r", "u", "p", "w", "i", "k", "i">>>>,
     <<<<"r", "o", "a", "-", "r", "u", "p">>,
       <<"r", "o", "a", "_", "r", "u", "p", "w", "i", "k", "i">>>>,
     <<<<"r", "o", "a", "-", "t", "a", "r", "a">>,
       <<"r", "o", "a", "_", "t", "a", "r", "a", "w", "i", "k", "i">>>>,
     <<<<"l", "z", "h">>,
       <<"z", "h", "_", "c", "l", "a", "s", "s", "i", "c", "a", "l", "w", "i", "k", "i">>>>,
     <<<<"z", "h", "-", "c", "l", "a", "s", "s", "i", "c", "a", "l">>,
       <<"z", "h", "_", "c", "l", "a", "s", "s", "i", "c", "a", "l", "w", "i", "k", "i">>>>,
     <<<<"n", "a", "n">>,
       <<"z", "h", "_", "m", "i", "n", "_", "n", "a", "n", "w", "i", "k", "i">>>>,
     <<<<"z", "h", "-", "m", "i", "n", "-", "n", "a", "n">>,
       <<"z", "h", "_", "m", "i", "n", "_", "n", "a", "n", "w", "i", "k", "i">>>>,
     <<<<"y", "u", "e">>,
       <<"z", "h", "_", "y", "u", "e", "w", "i", "k", "i">>>>,
     <<<<"z", "h", "-", "y", "u", "e">>,
       <<"z", "h", "_", "y", "u", "e", "w", "i", "k", "i">>>>})

Meta == <<"m", "e", "t", "a">>
Meta_p == <<"m", "e", "t", "a", "_", "p">>
S7 == <<"s", "7">>
Wiki == <<"w", "i", "k", "i">>
Wiki_p == <<"w", "i", "k", "i", "_", "p">>
Suffix_p == <<"_", "p">>

\* The file db_mapping.json: missing, or holding a mapping.
NoMappingFile == [exists |-> FALSE, mapping |-> EmptyDict]
MappingFile(m) == [exists |-> TRUE, mapping |-> m]

\* load_db_mapping
load_db_mapping(f) == IF f.exists THEN f.mapping ELSE EmptyDict

NoCache == [filled |-> FALSE, mapping |-> EmptyDict]
Cached(m) == [filled |-> TRUE, mapping |-> m]

\* get_database_mapping under functools.lru_cache(maxsize=1): what it
\* returns or raises, and the file and the cache it leaves.  fetched is what
\* fetch_database_mapping does when it is called: [exc, mapping].
\* Mutant: the fetched mapping is not saved to the file.
get_database_mapping_unsaved(cache, f, fetched) ==
    IF cache.filled
    THEN [exc |-> NoException, mapping |-> cache.mapping, file |-> f, cache |-> cache,
          fetches |-> 0]
    ELSE IF DOMAIN load_db_mapping(f) # {}
    THEN [exc |-> NoException, mapping |-> load_db_mapping(f), file |-> f,
          cache |-> Cached(load_db_mapping(f)), fetches |-> 0]
    ELSE IF fetched.exc # NoException
    THEN [exc |-> fetched.exc, mapping |-> EmptyDict, file |-> f, cache |-> cache,
          fetches |-> 1]
    ELSE [exc |-> NoException, mapping |-> fetched.mapping,
          file |-> f, cache |-> Cached(fetched.mapping), fetches |-> 1]

get_database_mapping(cache, f, fetched) ==
    IF cache.filled
    THEN [exc |-> NoException, mapping |-> cache.mapping, file |-> f, cache |-> cache,
          fetches |-> 0]
    ELSE IF DOMAIN load_db_mapping(f) # {}
    THEN [exc |-> NoException, mapping |-> load_db_mapping(f), file |-> f,
          cache |-> Cached(load_db_mapping(f)), fetches |-> 0]
    ELSE IF fetched.exc # NoException
    THEN [exc |-> fetched.exc, mapping |-> EmptyDict, file |-> f, cache |-> cache,
          fetches |-> 1]
    ELSE [exc |-> NoException, mapping |-> fetched.mapping,
          file |-> MappingFile(fetched.mapping), cache |-> Cached(fetched.mapping),
          fetches |-> 1]

\* get_database_name_for_language: the name ("" when there is none) or the
\* exception, and the file and the cache it leaves.
get_database_name_for_language(language, cache, f, fetched) ==
    IF language \in DOMAIN pre_defined_db_mapping
    THEN [exc |-> NoException, name |-> pre_defined_db_mapping[language],
          file |-> f, cache |-> cache, fetches |-> 0]
    ELSE LET m == get_database_mapping(cache, f, fetched)
         IN  IF m.exc # NoException
             THEN [exc |-> m.exc, name |-> <<>>, file |-> m.file, cache |-> m.cache,
                   fetches |-> m.fetches]
             ELSE [exc |-> NoException,
                   name |-> IF language \in DOMAIN m.mapping THEN m.mapping[language]
                            ELSE <<>>,
                   file |-> m.file, cache |-> m.cache, fetches |-> m.fetches]

\* The site code as get_database_info looks it up:
\* site_code.replace("-", "_").lower().removesuffix("wiki")
normalized(code) == removesuffix(lower(replace(code, "-", "_")), Wiki)

NoTarget == [exc |-> NoException, database |-> <<>>, host |-> <<>>]
Target(database, host) == [exc |-> NoException, database |-> database, host |-> host]
TargetRaised(exc) == [exc |-> exc, database |-> <<>>, host |-> <<>>]

\* DatabaseAnalytics.get_database_info: (database, host), the host without
\* its ".analytics.db.svc.wikimedia.cloud", or the exception; and the file
\* and the cache it leaves.
get_database_info(code, cache, f, fetched) ==
    IF code = Meta
    THEN [target |-> Target(Meta_p, S7), file |-> f, cache |-> cache, fetches |-> 0]
    ELSE LET r == get_database_name_for_language(normalized(code), cache, f, fetched)
             database == IF r.name # <<>> THEN r.name ELSE normalized(code) \o Wiki_p
         IN  [target |-> IF r.exc # NoException THEN TargetRaised(r.exc)
                         ELSE Target(database, removesuffix(database, Suffix_p)),
              file |-> r.file, cache |-> r.cache, fetches |-> r.fetches]

\* The process before any resolution, with db_mapping.json as f.
TargetNew(f) ==
    /\ mapping_file = f
    /\ mapping_cache = NoCache
    /\ fetches = 0
    /\ fetched_ok = 0
    /\ site_code = <<>>
    /\ target = NoTarget

----------------------------------------------------------------------------
(* The global report: ReportGenerator.generate_global_report and           *)
(* work_all_editors (services/reports.py).  A dict is the sequence of its  *)
(* items, in insertion order.                                              *)

Entry(k, v) == [key |-> k, value |-> v]
Keys(d) == {d[i].key : i \in 1..Len(d)}

\* d.get(k, default), and d[k] of a defaultdict
ValueOf(d, k, default) ==
    IF k \in Keys(d) THEN d[CHOOSE i \in 1..Len(d) : d[i].key = k].value ELSE default

\* d[k] = v: a new key goes last, a key of the dict keeps its place
SetEntry(d, k, v) ==
    IF k \in Keys(d)
    THEN [i \in 1..Len(d) |-> IF d[i].key = k THEN Entry(k, v) ELSE d[i]]
    ELSE Append(d, Entry(k, v))

Reverse(s) == [i \in 1..Len(s) |-> s[Len(s) + 1 - i]]

\* A stable sort by sort_key: x goes after every element that is not above it.
RECURSIVE insert_sorted(_, _)
insert_sorted(s, x) ==
    IF s = <<>> THEN <<x>>
    ELSE IF s[Len(s)].sort_key <= x.sort_key THEN Append(s, x)
    ELSE Append(insert_sorted(SubSeq(s, 1, Len(s) - 1), x), s[Len(s)])

RECURSIVE sorted_ascending(_)
sorted_ascending(s) ==
    IF s = <<>> THEN <<>>
    ELSE insert_sorted(sorted_ascending(SubSeq(s, 1, Len(s) - 1)), s[Len(s)])

\* sorted(s, key=key, reverse=reverse): stable in both directions (with
\* reverse the list is reversed, sorted and reversed again).
\* keys[i] is key(s[i]).
sorted(s, keys, reverse) ==
    LET keyed == [i \in 1..Len(s) |-> [sort_key |-> keys[i], item |-> s[i]]]
        r == IF reverse THEN Reverse(sorted_ascending(Reverse(keyed)))
             ELSE sorted_ascending(keyed)
    IN  [i \in 1..Len(r) |-> r[i].item]

\* max(s, key=key): the first of the items with the highest key; keys[i]
\* is key(s[i]).
max(s, keys) ==
    s[CHOOSE i \in 1..Len(s) :
        /\ \A j \in 1..Len(s) : keys[j] <= keys[i]
        /\ \A j \in 1..(i - 1) : keys[j] < keys[i]]

\* The loop body of the aggregation, for the rows of one language.
RECURSIVE add_rows(_, _, _)
add_rows(acc, lang, rows) ==
    IF rows = <<>> THEN acc
    ELSE LET e == Head(rows)
             wikis == ValueOf(acc.by_wiki, e.key, <<>>)
         IN  add_rows(
                 [global |-> SetEntry(acc.global, e.key,
                                      ValueOf(acc.global, e.key, 0) + e.value),
                  by_wiki |-> SetEntry(acc.by_wiki, e.key,
                                       SetEntry(wikis, lang,
                                                ValueOf(wikis, lang, 0) + e.value))],
                 lang, Tail(rows))

\* sorted_global[:100]
TOP_EDITORS == 100

\* Mutant: the editor is listed with the global total.
editor_status_total(by_wiki, listed) ==
    [i \in 1..Len(listed) |->
        LET wikis == ValueOf(by_wiki, listed[i].key, <<>>)
            editor_most_wiki == max(wikis, [j \in 1..Len(wikis) |-> wikis[j].value])
        IN  Entry(listed[i].key,
                  [count |-> listed[i].value, site |-> editor_most_wiki.key])]

\* all_editors_status after the loop over sorted_global[:100]
editor_status(by_wiki, listed) ==
    [i \in 1..Len(listed) |->
        LET wikis == ValueOf(by_wiki, listed[i].key, <<>>)
            editor_most_wiki == max(wikis, [j \in 1..Len(wikis) |-> wikis[j].value])
        IN  Entry(listed[i].key,
                  [count |-> editor_most_wiki.value, site |-> editor_most_wiki.key])]

\* generate_global_report from the sort on: the dict handed to work_all_editors
status_of(global, by_wiki) ==
    LET sorted_global == sorted(global, [i \in 1..Len(global) |-> global[i].value], TRUE)
        listed == SubSeq(sorted_global, 1,
                         IF Len(sorted_global) < TOP_EDITORS THEN Len(sorted_global)
                         ELSE TOP_EDITORS)
        status == editor_status(by_wiki, listed)
    IN  sorted(status, [i \in 1..Len(status) |-> status[i].value.count], TRUE)

\* f"{count:,}"
RECURSIVE format_thousands(_)
format_thousands(n) ==
    IF n < 1000 THEN str(n)
    ELSE LET r == n % 1000
         IN  format_thousands(n \div 1000) \o <<",">>
             \o (IF r < 10 THEN <<"0", "0">> ELSE IF r < 100 THEN <<"0">> ELSE <<>>)
             \o str(r)

\* A row of the table; editor is the key of the dict the row was written for.
TableRow(editor, ta) ==
    [editor |-> editor,
     user |-> replace(editor, "_", " "),
     count |-> format_thousands(ta.count),
     wiki |-> ta.site]

\* generate_global_report is called with all_editors.
ReportNew(input) ==
    /\ r_input = input
    /\ r_pc = "aggregate"
    /\ r_idx = 1
    /\ r_global_editors = <<>>
    /\ r_editors_by_wiki = <<>>
    /\ r_all_editors_status = <<>>
    /\ r_rows = <<>>

----------------------------------------------------------------------------
(* process_languages and gather_language_titles                            *)
(* (workflow/step2_process_languages.py)                                   *)

NoCallOnGather == [langs |-> <<>>, files |-> <<>>, sort_descending |-> FALSE]

\* load_language_titles_safe(lang, ...): the titles in the language's file
load_language_titles_safe(files, lang) == ValueOf(files, lang, <<>>)

\* Mutant: the items stay in the order they were loaded in.
sort_languages_titles_as_loaded(lt, sort_descending) == lt

\* dict(sorted(languages_titles.items(), key=lambda item: len(item[1]),
\*             reverse=sort_descending))
sort_languages_titles(lt, sort_descending) ==
    sorted(lt, [i \in 1..Len(lt) |-> Len(lt[i].value)], sort_descending)

\* process_languages is called.
GatherNew(c) ==
    /\ g_call = c
    /\ g_pc = "load"
    /\ g_idx = 1
    /\ languages_titles = <<>>
    /\ g_order = <<>>

----------------------------------------------------------------------------
(* ReportUploader.upload_all_reports (workflow/step4_uploader.py)          *)

\* _upload_report: get_page_title is called outside the try blocks, a file
\* that cannot be read and a failing PageMWClient give False, and the
\* result of page.save is returned as it is.
_upload_report(event) ==
    IF event = "get_page_title raises" THEN [raised |-> TRUE, value |-> FALSE]
    ELSE IF event \in {"open raises", "PageMWClient raises", "save raises"}
    THEN [raised |-> FALSE, value |-> FALSE]
    ELSE [raised |-> FALSE, value |-> event = "save returns True"]

\* Mutant: an upload that raises is counted nowhere.
count_upload_returned(results, uploaded) ==
    IF uploaded.raised THEN results
    ELSE IF uploaded.value THEN [results EXCEPT !.success = @ + 1]
    ELSE [results EXCEPT !.failed = @ + 1]

\* The body of upload_all_reports' loop: try / if success / else / except.
count_upload(results, uploaded) ==
    IF ~uploaded.raised /\ uploaded.value THEN [results EXCEPT !.success = @ + 1]
    ELSE [results EXCEPT !.failed = @ + 1]

Results(success, failed, total) == [success |-> success, failed |-> failed, total |-> total]

\* upload_all_reports is called, the reports directory holding files.
UploaderNew(files) ==
    /\ u_files = files
    /\ u_pc = "start"
    /\ u_attempted = <<>>
    /\ u_results = Results(0, 0, 0)

----------------------------------------------------------------------------
(* The runner's process *)

SM == [state |-> state, file |-> file]

Call(op, step, data) == [op |-> op, step |-> step, data |-> data]
NoCall == Call("none", 0, None)

NoRaise == [step |-> 0, started |-> FALSE]

InitWorkflow ==
    /\ state = _create_empty_state
    /\ file = NoFile
    /\ pc = "idle"
    /\ mode = "none"
    /\ cur = 0
    /\ start_step = 0
    /\ force = FALSE
    /\ year = 0
    /\ languages = <<>>
    /\ titles = None
    /\ all_editors = None
    /\ arg = None
    /\ processed_langs = <<>>
    /\ editors = EmptyDict
    /\ idx = 0
    /\ result = None
    /\ last_call = NoCall
    /\ raised = NoRaise
    /\ resuming = NoRaise
    /\ started_steps = <<>>
    /\ current_before = 0
    /\ forced_completed = {}
    /\ processed_ok = {}

Init ==
    /\ InitWorkflow
    /\ DatabaseNew(MissingFile, "Database")
    /\ ProcessorNew(NoCallOnProcessor)
    /\ OrchestratorNew(NoCallOnOrchestrator)
    /\ TargetNew(NoMappingFile)
    /\ ReportNew(<<>>)
    /\ GatherNew(NoCallOnGather)
    /\ UploaderNew(<<>>)

\* What the manager's call leaves: the document, the file, and the call's name.
Left(r, call) ==
    /\ state' = r.state
    /\ file' = r.file
    /\ last_call' = call

StepLocalsCleared ==
    /\ arg' = None
    /\ processed_langs' = <<>>
    /\ editors' = EmptyDict
    /\ idx' = 0

StepLocalsFresh ==
    /\ StepLocalsCleared
    /\ result' = None

\* The operation is over (it returned or it raised to the caller).
ToIdle ==
    /\ pc' = "idle"
    /\ mode' = "none"
    /\ cur' = 0
    /\ start_step' = 0
    /\ force' = FALSE
    /\ year' = 0
    /\ languages' = <<>>
    /\ titles' = None
    /\ all_editors' = None
    /\ resuming' = NoRaise
    /\ started_steps' = <<>>
    /\ current_before' = 0
    /\ forced_completed' = {}
    /\ StepLocalsFresh

\* The head of a step function: return the stored data of a completed step
\* (unless forced), raise when the previous step is not completed, else start.
\* Mutant: the previous step is not verified.
DependencyUnchecked(sm, step) == TRUE

DependencyMet(sm, step) == step = 1 \/ is_step_completed(sm, step - 1)

\* Mutant: a completed step is started again without force.
step_enter_again(sm, step, f) ==
    IF ~DependencyMet(sm, step) THEN "raise" ELSE "start"

step_enter(sm, step, f) ==
    IF ~f /\ is_step_completed(sm, step) THEN "cached"
    ELSE IF ~DependencyMet(sm, step) THEN "raise"
    ELSE "start"

\* run_all's else branches: the step is below start_step, its output is read from the state.
run_all_load(sm, step) == get_step_data(sm, step)

\* run_all from step c on, up to the first step function that starts or
\* raises: steps below start_step are loaded from the state, a step that is
\* already completed returns its stored data.  No call in here writes.
\* run_all's "if start_step <= n": step c is run, not loaded from the state.
\* Mutant: every step is run, whatever the start step.
RunsStepAlways(st, c) == TRUE

RunsStep(st, c) == st <= c

RECURSIVE run_all_advance(_, _, _, _, _)
run_all_advance(sm, st, c, t, ae) ==
    IF c > TOTAL_STEPS
    THEN [outcome |-> "done", step |-> c, titles |-> t, all_editors |-> ae]
    ELSE IF ~RunsStep(st, c)
    THEN run_all_advance(sm, st, c + 1,
                         IF c = 1 THEN run_all_load(sm, 1) ELSE t,
                         IF c = 2 THEN run_all_load(sm, 2) ELSE ae)
    ELSE IF step_enter(sm, c, FALSE) = "cached"
    THEN run_all_advance(sm, st, c + 1,
                         IF c = 1 THEN get_step_data(sm, 1) ELSE t,
                         IF c = 2 THEN get_step_data(sm, 2) ELSE ae)
    ELSE [outcome |-> step_enter(sm, c, FALSE), step |-> c, titles |-> t, all_editors |-> ae]

\* The previous step's output as the step function uses it: the argument, or
\* the state's copy when the argument is None.
step_input(sm, step, given) ==
    IF step = 1 THEN None
    ELSE IF IsNone(given) THEN get_step_data(sm, step - 1) ELSE given

\* The operation with arguments ctx goes on, without a write so far in this
\* action, to outcome o: it ends ("done"), raises, starts step o.step, or the
\* step function returns the stored data of step o.step ("cached").
Go(ctx, o) ==
    IF o.outcome = "start"
    THEN /\ Left(mark_step_started(SM, o.step), Call("mark_step_started", o.step, None))
         /\ pc' = "body"
         /\ mode' = ctx.mode
         /\ cur' = o.step
         /\ start_step' = ctx.start_step
         /\ force' = ctx.force
         /\ year' = ctx.year
         /\ languages' = ctx.languages
         /\ titles' = o.titles
         /\ all_editors' = o.all_editors
         /\ resuming' = ctx.resuming
         /\ started_steps' = Append(started_steps, o.step)
         /\ current_before' = state.current_step
         /\ forced_completed' = forced_completed
         /\ arg' = step_input(SM, o.step, IF o.step = 2 THEN o.titles ELSE o.all_editors)
         /\ LET partial == get_partial_data(SM, o.step)
            IN  /\ processed_langs' = IF o.step = 2 /\ ~IsNone(partial)
                                      THEN partial.v.processed.v ELSE <<>>
                /\ editors' = IF o.step = 2 /\ ~IsNone(partial)
                              THEN partial.v.editors.v ELSE EmptyDict
         /\ idx' = IF o.step = 2 THEN 1 ELSE 0
         /\ result' = None
         /\ raised' = NoRaise
    ELSE IF o.outcome = "cached"
    THEN /\ pc' = "return"
         /\ mode' = ctx.mode
         /\ cur' = o.step
         /\ result' = get_step_data(SM, o.step)
         /\ start_step' = 0
         /\ force' = FALSE
         /\ year' = 0
         /\ languages' = <<>>
         /\ titles' = None
         /\ all_editors' = None
         /\ resuming' = NoRaise
         /\ started_steps' = <<>>
         /\ current_before' = 0
         /\ forced_completed' = {}
         /\ StepLocalsCleared
         /\ raised' = NoRaise
         /\ UNCHANGED <<state, file, last_call>>
    ELSE /\ ToIdle
         /\ raised' = IF o.outcome = "raise" /\ ctx.mode = "run_all"
                      THEN [step |-> o.step, started |-> FALSE] ELSE NoRaise
         /\ UNCHANGED <<state, file, last_call>>

Context(m, st, f, y, langs, r) ==
    [mode |-> m, start_step |-> st, force |-> f, year |-> y, languages |-> langs,
     resuming |-> r]

\* Whether a reset from this step (0: a full reset) discards step 2's work.
DiscardsLanguages(from_step) == from_step <= 2

\* WorkflowRunner.run_all; force_from_step = 0 stands for None.  With
\* force_from_step or resume=False the state is reset first, a write.
RunAll(y, langs, resume, force_from_step) ==
    /\ UNCHANGED outside_workflow
    /\ pc = "idle"
    /\ IF force_from_step # 0 \/ ~resume
       THEN /\ IF force_from_step # 0
               THEN /\ Left(reset_from_step(SM, force_from_step),
                            Call("reset_from_step", force_from_step, None))
                    /\ start_step' = force_from_step
               ELSE /\ Left(reset(SM), Call("reset", 0, None))
                    /\ start_step' = 1
            /\ pc' = "call"
            /\ mode' = "run_all"
            /\ cur' = 1
            /\ force' = FALSE
            /\ year' = y
            /\ languages' = langs
            /\ titles' = None
            /\ all_editors' = None
            /\ StepLocalsFresh
            /\ resuming' = NoRaise
            /\ started_steps' = <<>>
            /\ current_before' = 0
            /\ forced_completed' = IF force_from_step # 0
                                   THEN {k \in Range(state.completed_steps) : k >= force_from_step}
                                   ELSE {}
            /\ raised' = NoRaise
            /\ processed_ok' = IF DiscardsLanguages(force_from_step) THEN {} ELSE processed_ok
       ELSE /\ Go(Context("run_all", get_resume_point(SM), FALSE, y, langs, raised),
                  run_all_advance(SM, get_resume_point(SM), 1, None, None))
            /\ UNCHANGED processed_ok

\* run_all goes on after a write.
Continue ==
    /\ UNCHANGED outside_workflow
    /\ pc = "call"
    /\ Go(Context(mode, start_step, force, year, languages, resuming),
          run_all_advance(SM, start_step, cur, titles, all_editors))
    /\ UNCHANGED processed_ok

\* WorkflowRunner.run_step(step, **kwargs)
RunStep(step, f, y, langs) ==
    /\ UNCHANGED outside_workflow
    /\ pc = "idle"
    /\ Go(Context("run_step", 0, f, y, langs, NoRaise),
          [outcome |-> step_enter(SM, step, f), step |-> step,
           titles |-> None, all_editors |-> None])
    /\ UNCHANGED processed_ok

\* run_step returns after its step function handed back the stored data.
StepReturns ==
    /\ UNCHANGED outside_workflow
    /\ pc = "return"
    /\ ToIdle
    /\ UNCHANGED <<state, file, last_call, raised, processed_ok>>

\* WorkflowRunner.reset(from_step); from_step = 0 stands for None.
Reset(from_step) ==
    /\ UNCHANGED outside_workflow
    /\ pc = "idle"
    /\ IF from_step # 0
       THEN Left(reset_from_step(SM, from_step), Call("reset_from_step", from_step, None))
       ELSE Left(reset(SM), Call("reset", 0, None))
    /\ ToIdle
    /\ raised' = NoRaise
    /\ processed_ok' = IF DiscardsLanguages(from_step) THEN {} ELSE processed_ok

\* The process ends (a crash, an interrupt, or a normal exit) and a new one
\* constructs its StateManager from the state file.
Restart ==
    /\ UNCHANGED outside_workflow
    /\ state' = _load_state(file)
    /\ last_call' = Call("_load_state", 0, None)
    /\ ToIdle
    /\ UNCHANGED <<file, raised, processed_ok>>

\* step 1: _retrieve_medicine_titles
_retrieve_medicine_titles(sm) ==
    LET partial == get_partial_data(sm, 1)
    IN  IF IsNone(partial) THEN List(<<>>) ELSE partial.v.titles

RetrieveTitles ==
    /\ UNCHANGED outside_workflow
    /\ pc = "body"
    /\ cur = 1
    /\ result' = _retrieve_medicine_titles(SM)
    /\ pc' = "clear"
    /\ current_before' = 0
    /\ UNCHANGED forced_completed
    /\ UNCHANGED <<state, file, last_call, mode, cur, start_step, force, year, languages,
                   titles, all_editors, arg, processed_langs, editors, idx,
                   raised, resuming, started_steps,
                   processed_ok>>

\* step 2: _process_languages, one iteration of the loop
AtLanguage == pc = "body" /\ cur = 2 /\ idx <= Len(languages)

_process_single_language(lang) == Dict(EmptyDict)

partial_checkpoint(processed, eds) ==
    Dict([processed |-> List(processed), editors |-> Dict(eds)])

\* Whether the loop processes lang, given the languages the checkpoint names.
ToProcess(lang, processed) == lang \notin Range(processed)

ProcessLanguage ==
    /\ UNCHANGED outside_workflow
    /\ AtLanguage
    /\ ToProcess(languages[idx], processed_langs)
    /\ LET lang == languages[idx]
           eds == Put(editors, lang, _process_single_language(lang))
           done == Append(processed_langs, lang)
       IN  /\ editors' = eds
           /\ processed_langs' = done
           /\ Left(set_partial_data(SM, 2, partial_checkpoint(done, eds)),
                   Call("set_partial_data", 2, partial_checkpoint(done, eds)))
           /\ processed_ok' = processed_ok \cup {lang}
    /\ idx' = idx + 1
    /\ UNCHANGED <<pc, mode, cur, start_step, force, year, languages, titles, all_editors,
                   arg, result, raised, resuming, started_steps,
                   current_before, forced_completed>>

SkipLanguage ==
    /\ UNCHANGED outside_workflow
    /\ AtLanguage
    /\ ~ToProcess(languages[idx], processed_langs)
    /\ idx' = idx + 1
    /\ UNCHANGED <<state, file, last_call, pc, mode, cur, start_step, force, year, languages,
                   titles, all_editors, arg, processed_langs, editors, result,
                   raised, resuming, started_steps, current_before, forced_completed,
                   processed_ok>>

LanguagesDone ==
    /\ UNCHANGED outside_workflow
    /\ pc = "body"
    /\ cur = 2
    /\ idx > Len(languages)
    /\ result' = Dict(editors)
    /\ pc' = "clear"
    /\ current_before' = 0
    /\ UNCHANGED forced_completed
    /\ UNCHANGED <<state, file, last_call, mode, cur, start_step, force, year, languages,
                   titles, all_editors, arg, processed_langs, editors, idx,
                   raised, resuming, started_steps,
                   processed_ok>>

\* step 3: _generate_reports
_generate_reports(sm, eds, y) ==
    LET partial == get_partial_data(sm, 3)
        reports == IF IsNone(partial) THEN List(<<>>) ELSE partial.v.reports
    IN  Dict([year |-> y,
              total_languages |-> Cardinality(DOMAIN eds.v),
              reports_generated |-> reports,
              status |-> "completed"])

GenerateReports ==
    /\ UNCHANGED outside_workflow
    /\ pc = "body"
    /\ cur = 3
    /\ result' = _generate_reports(SM, arg, year)
    /\ pc' = "clear"
    /\ current_before' = 0
    /\ UNCHANGED forced_completed
    /\ UNCHANGED <<state, file, last_call, mode, cur, start_step, force, year, languages,
                   titles, all_editors, arg, processed_langs, editors, idx,
                   raised, resuming, started_steps,
                   processed_ok>>

\* The step's work raises: except Exception -> log_error, raise; run_all
\* re-raises, run_step lets it through.
\* Mutant: the handler discards the step's partial checkpoint.
step_failed_clearing(sm, step, error) ==
    log_error(clear_partial_data(sm, step), step, error)

step_failed(sm, step, error) == log_error(sm, step, error)

StepBodyRaises ==
    /\ UNCHANGED outside_workflow
    /\ pc = "body"
    /\ cur = 2 => (AtLanguage /\ ToProcess(languages[idx], processed_langs))
    /\ Len(state.errors) < MaxErrors
    /\ Left(step_failed(SM, cur, "error"), Call("log_error", cur, None))
    /\ ToIdle
    /\ raised' = IF mode = "run_all" THEN [step |-> cur, started |-> TRUE] ELSE NoRaise
    /\ UNCHANGED processed_ok

\* The two calls of a step's success path, each a write of its own.
ClearPartial ==
    /\ UNCHANGED outside_workflow
    /\ pc = "clear"
    /\ Left(clear_partial_data(SM, cur), Call("clear_partial_data", cur, None))
    /\ pc' = "complete"
    /\ UNCHANGED <<mode, cur, start_step, force, year, languages, titles, all_editors,
                   arg, processed_langs, editors, idx, result,
                   raised, resuming, started_steps, current_before, forced_completed,
                   processed_ok>>

MarkCompleted ==
    /\ UNCHANGED outside_workflow
    /\ pc = "complete"
    /\ Left(mark_step_completed(SM, cur, result), Call("mark_step_completed", cur, result))
    /\ IF mode = "run_all" /\ cur < TOTAL_STEPS
       THEN /\ pc' = "call"
            /\ cur' = cur + 1
            /\ titles' = IF cur = 1 THEN result ELSE titles
            /\ all_editors' = IF cur = 2 THEN result ELSE all_editors
            /\ StepLocalsFresh
            /\ UNCHANGED <<mode, start_step, force, year, languages, resuming, started_steps,
                           current_before, forced_completed>>
       ELSE ToIdle
    /\ raised' = NoRaise
    /\ processed_ok' = IF cur = 2 THEN {} ELSE processed_ok

Next ==
    \/ \E y \in Years, langs \in LanguageLists, resume \in BOOLEAN,
          force_from_step \in 0..(TOTAL_STEPS + 1) :
          RunAll(y, langs, resume, force_from_step)
    \/ Continue
    \/ \E f \in BOOLEAN : RunStep(1, f, 0, <<>>)
    \/ \E f \in BOOLEAN, y \in Years, langs \in LanguageLists : RunStep(2, f, y, langs)
    \/ \E f \in BOOLEAN, y \in Years : RunStep(3, f, y, <<>>)
    \/ StepReturns
    \/ \E from_step \in 0..TOTAL_STEPS : Reset(from_step)
    \/ Restart
    \/ RetrieveTitles
    \/ ProcessLanguage
    \/ SkipLanguage
    \/ LanguagesDone
    \/ GenerateReports
    \/ StepBodyRaises
    \/ ClearPartial
    \/ MarkCompleted

Spec == Init /\ [][Next]_vars

----------------------------------------------------------------------------
(* The user of a Database object: with Database(...) as db: ...            *)

InitDb ==
    /\ InitWorkflow
    /\ \E f \in CredentialFiles, v \in {"Database", "DatabaseAnalytics"} : DatabaseNew(f, v)
    /\ ProcessorNew(NoCallOnProcessor)
    /\ OrchestratorNew(NoCallOnOrchestrator)
    /\ TargetNew(NoMappingFile)
    /\ ReportNew(<<>>)
    /\ GatherNew(NoCallOnGather)
    /\ UploaderNew(<<>>)

\* __enter__ up to the loop of _connect: the credentials are loaded first.
\* DatabaseAnalytics.__enter__ returns self.db.__enter__().
Enter ==
    /\ db_pc = "out"
    /\ opened < MaxOpened
    /\ LET loaded == _load_credentials(credential_file)
       IN  IF loaded.exc # NoException
           THEN /\ db_raised' = Raised(loaded.exc, "_load_credentials")
                /\ attempt' = 0
                /\ db_pc' = "out"
           ELSE /\ db_raised' = NotRaised
                /\ attempt' = 1
                /\ db_pc' = "connect"
    /\ attempt_log' = <<>>
    /\ slept' = <<>>
    /\ queries' = 0
    /\ body_exc' = NoException
    /\ exit_args' = NoException
    /\ UNCHANGED <<credential_file, via, connection, opened, closes>>
    /\ UNCHANGED outside_database

\* One iteration of _connect's loop: pymysql.connect returns or raises.
Attempt(outcome) ==
    /\ db_pc = "connect"
    /\ attempt <= MAX_RETRIES
    /\ attempt_log' = Append(attempt_log, outcome)
    /\ IF outcome = "connected"
       THEN /\ opened' = opened + 1
            /\ connection' = opened + 1
            /\ closes' = Append(closes, 0)
            /\ db_pc' = "scope"
            /\ UNCHANGED <<attempt, slept, db_raised>>
       ELSE IF Handled(outcome) /\ Retries(attempt)
       THEN /\ slept' = Append(slept, wait_time(attempt))
            /\ attempt' = attempt + 1
            \* the loop ends without a return when there is no attempt left
            /\ db_pc' = IF attempt + 1 > MAX_RETRIES THEN "scope" ELSE "connect"
            /\ UNCHANGED <<opened, connection, closes, db_raised>>
       ELSE /\ db_raised' = Raised(outcome, "_connect")
            /\ db_pc' = "out"
            /\ UNCHANGED <<opened, connection, closes, attempt, slept>>
    /\ UNCHANGED <<credential_file, via, queries, body_exc, exit_args>>
    /\ UNCHANGED outside_database

\* Database.execute: one cursor.execute; its errors are logged and re-raised,
\* and leave the body of the with statement.
\* Mutant: execute does not look at self.connection first.
ExecuteUnguarded(outcome) ==
    /\ db_pc \in {"out", "scope"}
    /\ queries < MaxQueries
    /\ queries' = queries + 1
    /\ IF outcome = "rows"
       THEN UNCHANGED <<db_raised, body_exc, db_pc>>
       ELSE /\ db_raised' = Raised(outcome, "execute")
            /\ body_exc' = IF db_pc = "scope" THEN outcome ELSE body_exc
            /\ db_pc' = IF db_pc = "scope" THEN "leaving" ELSE db_pc
    /\ UNCHANGED <<credential_file, via, connection, attempt, attempt_log, slept, opened,
                   closes, exit_args>>
    /\ UNCHANGED outside_database

Execute(outcome) ==
    /\ db_pc \in {"out", "scope"}
    /\ queries < MaxQueries
    /\ IF connection = NoConnection
       THEN /\ db_raised' = Raised("RuntimeError", "execute")
            /\ body_exc' = IF db_pc = "scope" THEN "RuntimeError" ELSE body_exc
            /\ db_pc' = IF db_pc = "scope" THEN "leaving" ELSE db_pc
            /\ UNCHANGED queries
       ELSE /\ queries' = queries + 1
            /\ IF outcome = "rows"
               THEN UNCHANGED <<db_raised, body_exc, db_pc>>
               ELSE /\ db_raised' = Raised(outcome, "execute")
                    /\ body_exc' = outcome
                    /\ db_pc' = "leaving"
    /\ UNCHANGED <<credential_file, via, connection, attempt, attempt_log, slept, opened,
                   closes, exit_args>>
    /\ UNCHANGED outside_database

\* The body of the with statement returns, or raises an error of its own.
BodyEnds(exc) ==
    /\ db_pc = "scope"
    /\ body_exc' = exc
    /\ db_raised' = IF exc = NoException THEN NotRaised ELSE Raised(exc, "body")
    /\ db_pc' = "leaving"
    /\ UNCHANGED <<credential_file, via, connection, attempt, attempt_log, slept, opened,
                   closes, queries, exit_args>>
    /\ UNCHANGED outside_database

\* The with statement calls __exit__ with the exception of the body.
Exit ==
    /\ db_pc = "leaving"
    /\ LET d == IF via = "DatabaseAnalytics"
                THEN DatabaseAnalytics__exit__(connection, closes, body_exc)
                ELSE [left |-> __exit__(connection, closes), exc_type |-> body_exc]
       IN  /\ connection' = d.left.connection
           /\ closes' = d.left.closes
           /\ exit_args' = d.exc_type
    /\ db_pc' = "out"
    /\ UNCHANGED <<credential_file, via, attempt, attempt_log, slept, opened, queries,
                   db_raised, body_exc>>
    /\ UNCHANGED outside_database

NextDb ==
    \/ Enter
    \/ \E outcome \in ConnectOutcomes : Attempt(outcome)
    \/ \E outcome \in ExecuteOutcomes : Execute(outcome)
    \/ \E exc \in BodyOutcomes : BodyEnds(exc)
    \/ Exit

SpecDb == InitDb /\ [][NextDb]_vars

----------------------------------------------------------------------------
(* A call of _process_titles_for_language or of process_language *)

Title(i) == <<"T">> \o str(i)
TitleLists == {[i \in 1..n |-> Title(i)] : n \in 0..MaxTitles}
BatchSizes == 1..MaxBatchSize

ProcessorCalls ==
    {[fn |-> "_process_titles_for_language", lang |-> l, titles |-> ts, batch_size |-> b] :
        l \in {"fr", "en"}, ts \in TitleLists, b \in BatchSizes}
    \cup
    {[fn |-> "process_language", lang |-> l, titles |-> ts, batch_size |-> b] :
        l \in {"fr", "en"}, ts \in TitleLists, b \in BatchSizes \cup {DEFAULT_BATCH_SIZE}}

Alice == <<"A", "l", "i", "c", "e">>
Carol == <<"C", "a", "r", "o", "l">>
SomeBot == <<"S", "o", "m", "e", "B", "o", "t">>
Address == <<"1", "9", "2", ".", "0", ".", "2", ".", "1">>
Address6 == <<"f", "e", "8", "0", ":", "0", ":", "0", ":", "0", ":", "0", ":", "0", ":", "0", ":", "1">>

\* What db.execute returns for a batch: the rows of a query grouped by actor.
QueryResults ==
    {<<>>,
     <<Row(Alice, 1)>>,
     <<Row(Alice, 2), Row(SomeBot, 3)>>,
     <<Row(Address, 5), Row(Carol, 1), Row(Address6, 7)>>}

QueryErrors == {OperationalError, ProgrammingError}

\* db.execute returns rows or raises.
QueryOutcomes ==
    {[exc |-> NoException, rows |-> r] : r \in QueryResults}
    \cup {[exc |-> e, rows |-> <<>>] : e \in QueryErrors}

InitProc ==
    /\ InitWorkflow
    /\ DatabaseNew(MissingFile, "Database")
    /\ \E c \in ProcessorCalls : ProcessorNew(c)
    /\ OrchestratorNew(NoCallOnOrchestrator)
    /\ TargetNew(NoMappingFile)
    /\ ReportNew(<<>>)
    /\ GatherNew(NoCallOnGather)
    /\ UploaderNew(<<>>)

\* _process_titles_for_language loops over batches of titles.
InOuterLoop ==
    /\ p_call.fn = "_process_titles_for_language"
    /\ Len(p_call.titles) > p_call.batch_size

\* The arguments of the call of process_language that is next or running.
pl_titles ==
    IF InOuterLoop
    THEN Slice(p_call.titles, batch_num, batch_num + p_call.batch_size)
    ELSE p_call.titles

pl_batch_size ==
    IF p_call.fn = "process_language" THEN p_call.batch_size ELSE DEFAULT_BATCH_SIZE

\* process_language up to the first query.  For "ar" and "en",
\* process_language_ar_en constructs DatabaseAnalytics(lang, timeout=3_000),
\* an argument DatabaseAnalytics.__init__ does not take: TypeError.  For the
\* others, process_language_patch enters the scope of DatabaseAnalytics(lang).
EnterLanguage(outcome) ==
    /\ p_pc = "process_language"
    /\ IF p_call.lang \in DirectLanguages
       THEN /\ p_result' = RaisedBy("TypeError")
            /\ p_pc' = "raised"
            /\ UNCHANGED <<p_scope, patch_batches, patch_num, patch_editors>>
       ELSE IF outcome = "entered"
       THEN /\ p_scope' = "open"
            /\ patch_editors' = EmptyDict
            /\ patch_batches' = _batch_titles(pl_titles, pl_batch_size)
            /\ patch_num' = 1
            /\ p_pc' = "patch"
            /\ UNCHANGED p_result
       ELSE /\ p_result' = RaisedBy(outcome)
            /\ p_pc' = "raised"
            /\ UNCHANGED <<p_scope, patch_batches, patch_num, patch_editors>>
    /\ UNCHANGED <<p_call, batch_num, title_editors, replies>>
    /\ UNCHANGED outside_processor

\* Mutant: a batch whose query fails is skipped and the loop goes on.
QueryBatchSkipping(outcome) ==
    /\ p_pc = "patch"
    /\ patch_num <= Len(patch_batches)
    /\ IF outcome.exc # NoException
       THEN /\ patch_num' = patch_num + 1
            /\ UNCHANGED <<patch_editors, replies>>
       ELSE /\ patch_editors' = patch_rows(patch_editors, outcome.rows)
            /\ patch_num' = patch_num + 1
            /\ replies' = Append(replies, outcome.rows)
    /\ UNCHANGED <<p_result, p_scope, p_pc>>
    /\ UNCHANGED <<p_call, batch_num, title_editors, patch_batches>>
    /\ UNCHANGED outside_processor

\* One iteration of process_language_patch's loop: the query of a batch.
QueryBatch(outcome) ==
    /\ p_pc = "patch"
    /\ patch_num <= Len(patch_batches)
    /\ IF outcome.exc # NoException
       THEN /\ p_result' = RaisedBy(outcome.exc)
            /\ p_scope' = "closed"
            /\ p_pc' = "raised"
            /\ UNCHANGED <<patch_editors, patch_num, replies>>
       ELSE /\ patch_editors' = patch_rows(patch_editors, outcome.rows)
            /\ patch_num' = patch_num + 1
            /\ replies' = Append(replies, outcome.rows)
            /\ UNCHANGED <<p_result, p_scope, p_pc>>
    /\ UNCHANGED <<p_call, batch_num, title_editors, patch_batches>>
    /\ UNCHANGED outside_processor

\* process_language_patch leaves the scope and returns its editors, to the
\* caller or to the loop of _process_titles_for_language, which merges them.
LanguageReturns ==
    /\ p_pc = "patch"
    /\ patch_num > Len(patch_batches)
    /\ p_scope' = "closed"
    /\ IF InOuterLoop
       THEN /\ title_editors' = merge_batch(title_editors, patch_editors)
            /\ batch_num' = batch_num + p_call.batch_size
            /\ IF batch_num + p_call.batch_size >= Len(p_call.titles)
               THEN /\ p_result' = Returned(merge_batch(title_editors, patch_editors))
                    /\ p_pc' = "returned"
               ELSE /\ p_pc' = "process_language"
                    /\ UNCHANGED p_result
       ELSE /\ p_result' = Returned(patch_editors)
            /\ p_pc' = "returned"
            /\ UNCHANGED <<title_editors, batch_num>>
    /\ UNCHANGED <<p_call, patch_batches, patch_num, patch_editors, replies>>
    /\ UNCHANGED outside_processor

NextProc ==
    \/ \E outcome \in {"entered", OperationalError} : EnterLanguage(outcome)
    \/ \E outcome \in QueryOutcomes : QueryBatch(outcome)
    \/ LanguageReturns

SpecProc == InitProc /\ [][NextProc]_vars

----------------------------------------------------------------------------
(* A call of WorkflowOrchestrator.run_complete_workflow (workflow.py) or   *)
(* of process_languages (workflow/step2_process_languages.py)              *)

OrchestratorLanguages == {"de", "es", "fr"}

\* languages_to_process: language codes, each once
LanguagesToProcess ==
    {l \in UNION {[1..n -> OrchestratorLanguages] : n \in 0..MaxLangs} :
        \A i, j \in 1..Len(l) : i # j => l[i] # l[j]}

OrchestratorCalls ==
    {[fn |-> f, langs |-> l] :
        f \in {"run_complete_workflow", "process_languages"}, l \in LanguagesToProcess}

\* The tallies the processing of a language returns.
Tallies ==
    {EmptyDict,
     [e \in {Alice} |-> 1],
     [e \in {Alice, Carol} |-> IF e = Alice THEN 2 ELSE 3]}

\* What happens on the visit of a language: the titles its file holds, the
\* tally its processing returns, and the call that raises ("none": no call).
\* No titles, no editors.
Visit(ts, eds, at) == [titles |-> ts, editors |-> eds, at |-> at]
Visits ==
    {Visit(<<>>, EmptyDict, at) : at \in {"none", "load", "process", "report"}}
    \cup {Visit(<<Title(1)>>, eds, at) : eds \in Tallies, at \in {"none", "report"}}
    \cup {Visit(<<Title(1)>>, EmptyDict, "process")}

Logged(lang, v, end) == [lang |-> lang, titles |-> v.titles, at |-> v.at, end |-> end]

InitOrch ==
    /\ InitWorkflow
    /\ DatabaseNew(MissingFile, "Database")
    /\ ProcessorNew(NoCallOnProcessor)
    /\ \E c \in OrchestratorCalls : OrchestratorNew(c)
    /\ TargetNew(NoMappingFile)
    /\ ReportNew(<<>>)
    /\ GatherNew(NoCallOnGather)
    /\ UploaderNew(<<>>)

\* run_complete_workflow's except clause: return 1
Orchestrator_except(step) ==
    /\ o_raised' = Append(o_raised, step)
    /\ o_result' = ReturnCode(1)
    /\ o_pc' = "done"

\* Mutant: the exception of step 1 is logged and the run goes on.
Orchestrator_retrieve_medicine_titles_going_on(exc) ==
    /\ o_pc = "step1"
    /\ o_invoked' = Append(o_invoked, 1)
    /\ o_raised' = IF exc = NoException THEN o_raised ELSE Append(o_raised, 1)
    /\ o_pc' = "mapping"
    /\ UNCHANGED <<o_call, o_db_mapping, o_idx, o_all_editors, o_log, o_global, o_result>>
    /\ UNCHANGED outside_orchestrator

\* Step 1: self.retrieve_medicine_titles()
Orchestrator_retrieve_medicine_titles(exc) ==
    /\ o_pc = "step1"
    /\ o_invoked' = Append(o_invoked, 1)
    /\ IF exc = NoException
       THEN /\ o_pc' = "mapping"
            /\ UNCHANGED <<o_raised, o_result>>
       ELSE Orchestrator_except(1)
    /\ UNCHANGED <<o_call, o_db_mapping, o_idx, o_all_editors, o_log, o_global>>
    /\ UNCHANGED outside_orchestrator

\* Step 2 begins: self.process_languages(year, languages) up to its loop.
Orchestrator_get_database_mapping(exc, mapped) ==
    /\ o_pc = "mapping"
    /\ o_invoked' = Append(o_invoked, 2)
    /\ IF exc = NoException
       THEN /\ o_db_mapping' = mapped
            /\ o_pc' = "languages"
            /\ UNCHANGED <<o_raised, o_result>>
       ELSE /\ Orchestrator_except(2)
            /\ UNCHANGED o_db_mapping
    /\ UNCHANGED <<o_call, o_idx, o_all_editors, o_log, o_global>>
    /\ UNCHANGED outside_orchestrator

\* One iteration of the loop of WorkflowOrchestrator.process_languages:
\* self._process_single_language(lang, ...), whose try catches everything.
Orchestrator_process_single_language(v) ==
    /\ o_call.fn = "run_complete_workflow"
    /\ o_pc = "languages"
    /\ o_idx <= Len(o_call.langs)
    /\ LET lang == o_call.langs[o_idx]
       IN  IF v.at = "load"
           THEN /\ o_log' = Append(o_log, Logged(lang, v, "failed"))
                /\ UNCHANGED o_all_editors
           ELSE IF lang \notin o_db_mapping
           THEN /\ o_log' = Append(o_log, Logged(lang, v, "no mapping"))
                /\ UNCHANGED o_all_editors
           ELSE IF v.at = "process"
           THEN /\ o_log' = Append(o_log, Logged(lang, v, "failed"))
                /\ UNCHANGED o_all_editors
           ELSE /\ o_all_editors' = SetItem(o_all_editors, lang, v.editors)
                /\ o_log' = Append(o_log,
                        Logged(lang, v, IF v.at = "report" THEN "failed" ELSE "complete"))
    /\ o_idx' = o_idx + 1
    /\ UNCHANGED <<o_call, o_pc, o_db_mapping, o_invoked, o_raised, o_result, o_global>>
    /\ UNCHANGED outside_orchestrator

\* One iteration of the loop of process_languages
\* (workflow/step2_process_languages.py): _process_single_language(lang,
\* year, batch_size, titles), with no try around it or inside it.
step2_process_single_language(v) ==
    /\ o_call.fn = "process_languages"
    /\ o_pc = "languages"
    /\ o_idx <= Len(o_call.langs)
    /\ v.at # "load"
    /\ LET lang == o_call.langs[o_idx]
           raises == v.at = "process" \/ (v.at = "report" /\ v.editors # EmptyDict)
       IN  IF raises
           THEN /\ o_log' = Append(o_log, Logged(lang, v, "failed"))
                /\ o_result' = Propagated
                /\ o_pc' = "done"
                /\ UNCHANGED <<o_all_editors, o_idx>>
           ELSE /\ o_log' = Append(o_log, Logged(lang, v, "complete"))
                /\ o_all_editors' = IF v.editors # EmptyDict
                                    THEN SetItem(o_all_editors, lang, v.editors)
                                    ELSE o_all_editors
                /\ o_idx' = o_idx + 1
                /\ UNCHANGED <<o_result, o_pc>>
    /\ UNCHANGED <<o_call, o_db_mapping, o_invoked, o_raised, o_global>>
    /\ UNCHANGED outside_orchestrator

\* The loop is over: process_languages returns all_editors.
process_languages_returns ==
    /\ o_pc = "languages"
    /\ o_idx > Len(o_call.langs)
    /\ IF o_call.fn = "process_languages"
       THEN /\ o_result' = ReturnCode(0)
            /\ o_pc' = "done"
       ELSE /\ o_pc' = "step3"
            /\ UNCHANGED o_result
    /\ UNCHANGED <<o_call, o_db_mapping, o_idx, o_all_editors, o_log, o_invoked, o_raised,
                   o_global>>
    /\ UNCHANGED outside_orchestrator

\* Step 3: self.generate_reports(all_editors, year)
Orchestrator_generate_reports(exc) ==
    /\ o_pc = "step3"
    /\ o_invoked' = Append(o_invoked, 3)
    /\ IF exc = NoException
       THEN /\ o_pc' = "summary"
            /\ UNCHANGED <<o_raised, o_result>>
       ELSE Orchestrator_except(3)
    /\ UNCHANGED <<o_call, o_db_mapping, o_idx, o_all_editors, o_log, o_global>>
    /\ UNCHANGED outside_orchestrator

\* The final summary, with len(self.processor.aggregate_editors(all_editors)),
\* and return 0.
Orchestrator_summary ==
    /\ o_pc = "summary"
    /\ o_global' = aggregate_editors(o_all_editors)
    /\ o_result' = ReturnCode(0)
    /\ o_pc' = "done"
    /\ UNCHANGED <<o_call, o_db_mapping, o_idx, o_all_editors, o_log, o_invoked, o_raised>>
    /\ UNCHANGED outside_orchestrator

StepOutcomes == {NoException, OperationalError}

NextOrch ==
    \/ \E exc \in StepOutcomes : Orchestrator_retrieve_medicine_titles(exc)
    \/ \E exc \in StepOutcomes, mapped \in SUBSET OrchestratorLanguages :
            Orchestrator_get_database_mapping(exc, mapped)
    \/ \E v \in Visits : Orchestrator_process_single_language(v)
    \/ \E v \in Visits : step2_process_single_language(v)
    \/ process_languages_returns
    \/ \E exc \in StepOutcomes : Orchestrator_generate_reports(exc)
    \/ Orchestrator_summary

SpecOrch == InitOrch /\ [][NextOrch]_vars

----------------------------------------------------------------------------
(* Calls of DatabaseAnalytics.get_database_info in one process after another *)

Fr == <<"f", "r">>
En == <<"e", "n">>
Gsw == <<"g", "s", "w">>
Xx == <<"x", "x">>
BeTarask == <<"b", "e", "-", "t", "a", "r", "a", "s", "k">>
ZhYue == <<"z", "h", "-", "y", "u", "e">>
Nb == <<"n", "b">>
Yue == <<"y", "u", "e">>
RoaRup == <<"r", "o", "a", "-", "r", "u", "p">>
NdsNl == <<"n", "d", "s", "-", "n", "l">>
SiteCodes == {Meta, En, Fr, Xx, Gsw, Nb, Yue, BeTarask, ZhYue, RoaRup, NdsNl}

\* What fetch_database_mapping returns: names by lang and by the first label
\* of the url, and "en" set to "enwiki".
FetchedMappings ==
    {DictOf({<<En, <<"e", "n", "w", "i", "k", "i">>>>}),
     DictOf({<<En, <<"e", "n", "w", "i", "k", "i">>>>,
             <<Fr, <<"f", "r", "w", "i", "k", "i">>>>,
             <<Gsw, <<"g", "s", "w", "w", "i", "k", "i">>>>,
             <<BeTarask, <<"b", "e", "_", "x", "_", "o", "l", "d", "w", "i", "k", "i">>>>}),
     DictOf({<<En, <<"e", "n", "w", "i", "k", "i">>>>,
             <<Nb, <<"n", "o", "w", "i", "k", "i">>>>,
             <<RoaRup, <<"r", "o", "a", "_", "r", "u", "p", "w", "i", "k", "i">>>>})}

\* fetch_database_mapping returns a mapping or raises.
FetchOutcomes ==
    {[exc |-> NoException, mapping |-> m] : m \in FetchedMappings}
    \cup {[exc |-> OperationalError, mapping |-> EmptyDict]}

MappingFiles ==
    {NoMappingFile, MappingFile(EmptyDict)} \cup {MappingFile(m) : m \in FetchedMappings}

InitTarget ==
    /\ InitWorkflow
    /\ DatabaseNew(MissingFile, "Database")
    /\ ProcessorNew(NoCallOnProcessor)
    /\ OrchestratorNew(NoCallOnOrchestrator)
    /\ \E f \in MappingFiles : TargetNew(f)
    /\ ReportNew(<<>>)
    /\ GatherNew(NoCallOnGather)
    /\ UploaderNew(<<>>)

\* A call of get_database_info(code).
Resolve(code, fetched) ==
    /\ LET r == get_database_info(code, mapping_cache, mapping_file, fetched)
       IN  /\ fetches + r.fetches <= MaxFetches
           /\ target' = r.target
           /\ mapping_file' = r.file
           /\ mapping_cache' = r.cache
           /\ fetches' = fetches + r.fetches
           /\ fetched_ok' = fetched_ok + (IF r.cache.filled THEN r.fetches ELSE 0)
    /\ site_code' = code
    /\ UNCHANGED outside_target

\* The process ends and another begins: the cache is empty, the file stays.
NewProcess ==
    /\ mapping_cache.filled
    /\ mapping_cache' = NoCache
    /\ site_code' = <<>>
    /\ target' = NoTarget
    /\ UNCHANGED <<mapping_file, fetches, fetched_ok>>
    /\ UNCHANGED outside_target

NextTarget ==
    \/ \E code \in SiteCodes, fetched \in FetchOutcomes : Resolve(code, fetched)
    \/ NewProcess

SpecTarget == InitTarget /\ [][NextTarget]_vars

----------------------------------------------------------------------------
(* A call of generate_global_report                                        *)

Al == <<"A", "_", "l">>
Bo == <<"B", "o">>
ReportEditors == {Al, Bo}
ReportCounts == {5, 12, 1200}
ReportLanguages == {"de", "fr"}

\* The editors dict of one language: up to MaxRows editors with their counts.
EditorRows ==
    {<<>>}
    \cup {<<Entry(e, n)>> : e \in ReportEditors, n \in ReportCounts}
    \cup (IF MaxRows < 2 THEN {}
          ELSE {<<Entry(p[1], n1), Entry(p[2], n2)>> :
                   p \in {q \in ReportEditors \X ReportEditors : q[1] # q[2]},
                   n1 \in ReportCounts, n2 \in ReportCounts})

ReportInputs ==
    {<<Entry(l, rows)>> : l \in ReportLanguages, rows \in EditorRows}
    \cup {<<Entry(p[1], rows1), Entry(p[2], rows2)>> :
             p \in {q \in ReportLanguages \X ReportLanguages : q[1] # q[2]},
             rows1 \in EditorRows, rows2 \in EditorRows}

InitReport ==
    /\ InitWorkflow
    /\ DatabaseNew(MissingFile, "Database")
    /\ ProcessorNew(NoCallOnProcessor)
    /\ OrchestratorNew(NoCallOnOrchestrator)
    /\ TargetNew(NoMappingFile)
    /\ \E input \in ReportInputs : ReportNew(input)
    /\ GatherNew(NoCallOnGather)
    /\ UploaderNew(<<>>)

\* One iteration of the loop over all_editors.items().
AggregateLanguage ==
    /\ r_pc = "aggregate"
    /\ r_idx <= Len(r_input)
    /\ LET acc == add_rows([global |-> r_global_editors, by_wiki |-> r_editors_by_wiki],
                           r_input[r_idx].key, r_input[r_idx].value)
       IN  /\ r_global_editors' = acc.global
           /\ r_editors_by_wiki' = acc.by_wiki
    /\ r_idx' = r_idx + 1
    /\ UNCHANGED <<r_input, r_pc, r_all_editors_status, r_rows>>
    /\ UNCHANGED outside_report

\* The sort of the totals, the loop over the first hundred and the sort of
\* all_editors_status; work_all_editors is called.
ListEditors ==
    /\ r_pc = "aggregate"
    /\ r_idx > Len(r_input)
    /\ r_all_editors_status' = status_of(r_global_editors, r_editors_by_wiki)
    /\ r_pc' = "table"
    /\ r_idx' = 1
    /\ UNCHANGED <<r_input, r_global_editors, r_editors_by_wiki, r_rows>>
    /\ UNCHANGED outside_report

\* One iteration of work_all_editors' loop: the row, and the break after a
\* count below 10.
WriteRow ==
    /\ r_pc = "table"
    /\ r_idx <= Len(r_all_editors_status)
    /\ LET user == r_all_editors_status[r_idx].key
           ta == r_all_editors_status[r_idx].value
       IN  /\ r_rows' = Append(r_rows, TableRow(user, ta))
           /\ r_pc' = IF ta.count < 10 THEN "written" ELSE r_pc
    /\ r_idx' = r_idx + 1
    /\ UNCHANGED <<r_input, r_global_editors, r_editors_by_wiki, r_all_editors_status>>
    /\ UNCHANGED outside_report

\* The loop is over: the text is written to total_report.wiki.
ReportWritten ==
    /\ r_pc = "table"
    /\ r_idx > Len(r_all_editors_status)
    /\ r_pc' = "written"
    /\ UNCHANGED <<r_input, r_idx, r_global_editors, r_editors_by_wiki,
                   r_all_editors_status, r_rows>>
    /\ UNCHANGED outside_report

NextReport ==
    \/ AggregateLanguage
    \/ ListEditors
    \/ WriteRow
    \/ ReportWritten

SpecReport == InitReport /\ [][NextReport]_vars

----------------------------------------------------------------------------
(* A call of process_languages, up to the visit of each language           *)

GatheredLanguages == {"de", "es", "fr"}

\* languages_to_process: any list, a language possibly more than once.
GatheredLists == UNION {[1..n -> GatheredLanguages] : n \in 0..MaxGathered}

\* The title files: for each language the titles its file holds.
TitleFiles ==
    {<<Entry("de", [i \in 1..a |-> Title(i)]),
       Entry("es", [i \in 1..b |-> Title(i)]),
       Entry("fr", [i \in 1..c |-> Title(i)])>> :
        a \in 0..MaxFileTitles, b \in 0..MaxFileTitles, c \in 0..MaxFileTitles}

GatherCalls ==
    {[langs |-> ls, files |-> fs, sort_descending |-> d] :
        ls \in GatheredLists, fs \in TitleFiles, d \in BOOLEAN}

InitGather ==
    /\ InitWorkflow
    /\ DatabaseNew(MissingFile, "Database")
    /\ ProcessorNew(NoCallOnProcessor)
    /\ OrchestratorNew(NoCallOnOrchestrator)
    /\ TargetNew(NoMappingFile)
    /\ ReportNew(<<>>)
    /\ \E c \in GatherCalls : GatherNew(c)
    /\ UploaderNew(<<>>)

\* One iteration of gather_language_titles' loop.
LoadTitles ==
    /\ g_pc = "load"
    /\ g_idx <= Len(g_call.langs)
    /\ languages_titles' = SetEntry(languages_titles, g_call.langs[g_idx],
                                    load_language_titles_safe(g_call.files,
                                                              g_call.langs[g_idx]))
    /\ g_idx' = g_idx + 1
    /\ UNCHANGED <<g_call, g_pc, g_order>>
    /\ UNCHANGED outside_gather

\* gather_language_titles sorts and returns.
SortTitles ==
    /\ g_pc = "load"
    /\ g_idx > Len(g_call.langs)
    /\ languages_titles' = sort_languages_titles(languages_titles, g_call.sort_descending)
    /\ g_pc' = "process"
    /\ g_idx' = 1
    /\ UNCHANGED <<g_call, g_order>>
    /\ UNCHANGED outside_gather

\* One iteration of process_languages' loop: _process_single_language
\* returns or raises.
VisitLanguage(raises) ==
    /\ g_pc = "process"
    /\ g_idx <= Len(languages_titles)
    /\ g_order' = Append(g_order, languages_titles[g_idx].key)
    /\ g_pc' = IF raises THEN "raised" ELSE g_pc
    /\ g_idx' = g_idx + 1
    /\ UNCHANGED <<g_call, languages_titles>>
    /\ UNCHANGED outside_gather

GatherReturns ==
    /\ g_pc = "process"
    /\ g_idx > Len(languages_titles)
    /\ g_pc' = "returned"
    /\ UNCHANGED <<g_call, g_idx, languages_titles, g_order>>
    /\ UNCHANGED outside_gather

NextGather ==
    \/ LoadTitles
    \/ SortTitles
    \/ \E raises \in BOOLEAN : VisitLanguage(raises)
    \/ GatherReturns

SpecGather == InitGather /\ [][NextGather]_vars

----------------------------------------------------------------------------
(* A call of upload_all_reports                                            *)

ReportFileNames == {"total_report.wiki", "de.wiki", "fr.wiki"}

\* What _get_report_files returns: the .wiki files of the directory.
ReportFiles ==
    {fs \in UNION {[1..n -> ReportFileNames] : n \in 0..MaxReports} :
        \A i, j \in 1..Len(fs) : i # j => fs[i] # fs[j]}

UploadEvents ==
    {"get_page_title raises", "open raises", "PageMWClient raises", "save raises",
     "save returns True", "save returns False"}

InitUpload ==
    /\ InitWorkflow
    /\ DatabaseNew(MissingFile, "Database")
    /\ ProcessorNew(NoCallOnProcessor)
    /\ OrchestratorNew(NoCallOnOrchestrator)
    /\ TargetNew(NoMappingFile)
    /\ ReportNew(<<>>)
    /\ GatherNew(NoCallOnGather)
    /\ \E files \in ReportFiles : UploaderNew(files)

\* upload_all_reports up to its loop: no file, no upload.
FindReports ==
    /\ u_pc = "start"
    /\ IF u_files = <<>>
       THEN /\ u_pc' = "returned"
            /\ u_results' = Results(0, 0, 0)
       ELSE /\ u_pc' = "loop"
            /\ u_results' = Results(0, 0, Len(u_files))
    /\ UNCHANGED <<u_files, u_attempted>>
    /\ UNCHANGED outside_upload

\* One iteration of the loop over report_files.
UploadReport(event) ==
    /\ u_pc = "loop"
    /\ Len(u_attempted) < Len(u_files)
    /\ u_attempted' = Append(u_attempted, u_files[Len(u_attempted) + 1])
    /\ u_results' = count_upload(u_results, _upload_report(event))
    /\ UNCHANGED <<u_files, u_pc>>
    /\ UNCHANGED outside_upload

UploadsReturn ==
    /\ u_pc = "loop"
    /\ Len(u_attempted) = Len(u_files)
    /\ u_pc' = "returned"
    /\ UNCHANGED <<u_files, u_attempted, u_results>>
    /\ UNCHANGED outside_upload

NextUpload ==
    \/ FindReports
    \/ \E event \in UploadEvents : UploadReport(event)
    \/ UploadsReturn

SpecUpload == InitUpload /\ [][NextUpload]_vars

----------------------------------------------------------------------------
(* Properties *)

Completed == Range(state.completed_steps)
Occurrences(s, x) == Cardinality({i \in 1..Len(s) : s[i] = x})

\* The step a key of step_data belongs to: the key is str(s) or f"{s}_partial".
KeyStep(k) == CHOOSE s \in 0..(TOTAL_STEPS + 1) : k = str(s) \/ k = partial_key(s)

InResumedRun == resuming.step # 0

\* C1 (as stated): if step k raises during run_all, a later
\* run_all(resume=True) on the same state file starts at step k.
C1_ResumeStartsAtRaisedStep ==
    InResumedRun => start_step = resuming.step

\* C1 (amended): a run_all(resume=True) after step k raised in run_all starts
\* at a step not above k, and at step k when step k had started before it
\* raised; every step below the start step is completed and none of them is
\* executed; the output of the previous step that the running step uses is
\* the one stored in the state.
C1_ResumeStartsAtFirstUncompleted ==
    InResumedRun =>
        /\ start_step <= resuming.step
        /\ resuming.started => start_step = resuming.step
        /\ \A s \in Steps : s < start_step => s \in Completed
        /\ cur >= start_step
        /\ (pc = "body" /\ cur > 1) =>
              /\ str(cur - 1) \in DOMAIN state.step_data
              /\ arg = state.step_data[str(cur - 1)]

C1_Witness ==
    /\ resuming = [step |-> 2, started |-> TRUE]
    /\ pc = "body"
    /\ cur = 2
    /\ start_step = 2
    /\ arg = state.step_data[str(1)]

\* C2: get_resume_point is 1 when no step is completed, and otherwise the
\* step after the highest completed step.
C2_ResumePoint ==
    LET r == get_resume_point(SM)
    IN  /\ Completed = {} => r = 1
        /\ Completed # {} => (r - 1 \in Completed /\ \A s \in Completed : s < r)

C2_Witness ==
    /\ Completed = {1, 2}
    /\ get_resume_point(SM) = 3

\* C3: a step occurs at most once in completed_steps, and when
\* mark_step_completed(n, data) has returned, n occurs exactly once and
\* step_data holds the data of that call for n.
C3_IdempotentAdd ==
    /\ \A n \in Steps : Occurrences(state.completed_steps, n) <= 1
    /\ last_call.op = "mark_step_completed" =>
          /\ Occurrences(state.completed_steps, last_call.step) = 1
          /\ str(last_call.step) \in DOMAIN state.step_data
          /\ state.step_data[str(last_call.step)] = last_call.data

\* Step 2 was marked completed again with other data: step 3's stored
\* summary counts the languages of step 2's earlier data.
C3_Witness ==
    /\ last_call.op = "mark_step_completed"
    /\ last_call.step = 2
    /\ 3 \in Completed
    /\ state.step_data[str(3)].v.total_languages
          # Cardinality(DOMAIN state.step_data[str(2)].v)

\* C4: reset_from_step(n) removes exactly the steps >= n from
\* completed_steps and exactly the step_data entries (whole-step and
\* partial) of steps >= n, and leaves the entries of the steps < n as they were.
C4_ResetFromStep ==
    [][\A n \in Steps :
          (last_call'.op = "reset_from_step" /\ last_call'.step = n) =>
              /\ state'.completed_steps = SelectSeqLt(state.completed_steps, n)
              /\ Range(state'.completed_steps) = {s \in Completed : s < n}
              /\ DOMAIN state'.step_data =
                     {k \in DOMAIN state.step_data : KeyStep(k) < n}
              /\ \A k \in DOMAIN state'.step_data :
                     state'.step_data[k] = state.step_data[k]]_vars

\* reset_from_step(2) has returned on a state in which step 3 had failed
\* (so step 2 had been completed): step 1 and its data are kept.
C4_Witness ==
    /\ last_call.op = "reset_from_step"
    /\ last_call.step = 2
    /\ Completed = {1}
    /\ DOMAIN state.step_data = {str(1)}
    /\ Len(state.errors) >= 1
    /\ state.errors[1].step = 3

\* C5 (as stated): when mark_step_completed has returned, current_step is
\* max(completed_steps) + 1.
C5_CurrentStepAfterCheckpoint ==
    last_call.op = "mark_step_completed" =>
        state.current_step = Max(Completed) + 1

\* C6: mark_step_started, mark_step_completed, set_partial_data,
\* clear_partial_data and log_error leave every completed step completed.
C6_CompletedKept ==
    [][last_call'.op \in {"mark_step_started", "mark_step_completed", "set_partial_data",
                          "clear_partial_data", "log_error"}
          => Completed \subseteq Range(state'.completed_steps)]_vars

\* Step 1 was started again (forced) while steps 1 and 2 were completed.
C6_Witness ==
    /\ last_call.op = "mark_step_started"
    /\ last_call.step = 1
    /\ Completed = {1, 2}

\* C7: the state file holds the in-memory state whenever a StateManager call
\* has returned, so a restart reloads the state the last call left.
C7_WriteThrough ==
    _load_state(file) = state

\* A new process has loaded a state that holds an error and a partial checkpoint.
C7_Witness ==
    /\ last_call.op = "_load_state"
    /\ Len(state.errors) = 1
    /\ partial_key(2) \in DOMAIN state.step_data
    /\ file.exists

\* C8 (as stated): between two completions (or resets) of step 2, whatever
\* failed attempts lie between, no language is processed successfully twice.
C8_ProcessedOnce ==
    [][(pc = "body" /\ cur = 2 /\ Len(processed_langs') = Len(processed_langs) + 1)
          => languages[idx] \notin processed_ok]_vars

\* C9 (as stated): no write other than a reset removes a step's partial
\* checkpoint from the state file without the step being in the file's
\* completed_steps.
C9_ClearedWithCompletion ==
    [][\A s \in Steps :
          (/\ file.exists
           /\ partial_key(s) \in DOMAIN file.doc.step_data
           /\ partial_key(s) \notin DOMAIN file'.doc.step_data
           /\ last_call'.op \notin {"reset", "reset_from_step"})
          => s \in Range(file'.doc.completed_steps)]_vars

\* C10: mark_step_started is not called for step 2 or 3 while the previous
\* step is not completed: the step function raises.
C10_StartedOnlyAfterPrevious ==
    /\ (last_call.op = "mark_step_started" /\ last_call.step > 1)
          => last_call.step - 1 \in Completed
    /\ (pc = "body" /\ cur > 1) => cur - 1 \in Completed
    /\ \A n \in Steps \ {1}, f \in BOOLEAN :
          n - 1 \notin Completed => step_enter(SM, n, f) = "raise"

\* run_all(force_from_step=k) raised at step k on the dependency check.
C10_Witness ==
    /\ raised.step > 1
    /\ ~raised.started
    /\ raised.step - 1 \notin Completed
    /\ last_call.op = "reset_from_step"
    /\ state.started_at = NoTime

\* A step function raises to run_all in this step (raised is NoRaise while
\* run_all is at "call" or "body").
RaisesInRunAll == pc \in {"call", "body"} /\ raised'.step # 0

\* The step's work raises in this step, in run_all or in run_step.
BodyRaises == pc = "body" /\ pc' = "idle" /\ last_call'.op # "_load_state"

\* The call appended one entry for step s, with a timestamp, to the error
\* log, in memory and in the state file.
LoggedOne(s) ==
    /\ Len(state'.errors) = Len(state.errors) + 1
    /\ SubSeq(state'.errors, 1, Len(state.errors)) = state.errors
    /\ state'.errors[Len(state'.errors)].step = s
    /\ state'.errors[Len(state'.errors)].timestamp = Now
    /\ file'.exists
    /\ file'.doc.errors = state'.errors

\* C11 (as stated): every fatal error of a step, a step-dependency error
\* included, appends one entry with the step number and a timestamp to the
\* persisted error log before it propagates to the caller.
C11_FatalErrorLogged ==
    [][/\ RaisesInRunAll => LoggedOne(raised'.step)
       /\ BodyRaises => LoggedOne(cur)]_vars


\* C12: when a step's body raises, the step is not added to completed_steps,
\* no whole-step data is stored for it, and the partial checkpoint persisted
\* for it is still there, in memory and in the state file.
C12_FailedStepKeepsCheckpoint ==
    [][BodyRaises =>
          /\ state'.completed_steps = state.completed_steps
          /\ file'.doc.completed_steps = state.completed_steps
          /\ Get(state'.step_data, str(cur)) = Get(state.step_data, str(cur))
          /\ Get(file'.doc.step_data, str(cur)) = Get(state.step_data, str(cur))
          /\ partial_key(cur) \in DOMAIN state.step_data =>
                 /\ partial_key(cur) \in DOMAIN state'.step_data
                 /\ state'.step_data[partial_key(cur)] = state.step_data[partial_key(cur)]
                 /\ partial_key(cur) \in DOMAIN file'.doc.step_data
                 /\ file'.doc.step_data[partial_key(cur)] = state.step_data[partial_key(cur)]]_vars

\* Step 2 raised after a language was checkpointed: the step is not
\* completed, has no whole-step data, and its checkpoint is in the file.
C12_Witness ==
    /\ last_call.op = "log_error"
    /\ last_call.step = 2
    /\ 2 \notin Completed
    /\ str(2) \notin DOMAIN state.step_data
    /\ partial_key(2) \in DOMAIN file.doc.step_data
    /\ Len(file.doc.step_data[partial_key(2)].v.processed.v) = 1

\* C13: within one run_all, steps are started in strictly ascending order,
\* each at most once, and only steps at or above the start step are started.
C13_StartedAscending ==
    mode = "run_all" =>
        /\ \A i, j \in 1..Len(started_steps) : i < j => started_steps[i] < started_steps[j]
        /\ \A i \in 1..Len(started_steps) :
               /\ started_steps[i] >= start_step
               /\ started_steps[i] \in Steps
        /\ pc \in {"body", "clear", "complete"} =>
               /\ Len(started_steps) >= 1
               /\ started_steps[Len(started_steps)] = cur
               /\ last_call.op = "mark_step_started" => last_call.step = cur

\* A run_all from step 2 (step 1 loaded from the state) has started steps 2 and 3.
C13_Witness ==
    /\ mode = "run_all"
    /\ start_step = 2
    /\ started_steps = <<2, 3>>
    /\ pc = "body"

\* run_all is over in this step: it returned or it raised to its caller.
RunAllEnds == mode = "run_all" /\ mode' = "none" /\ last_call'.op # "_load_state"

\* C14 (as stated): a run_all ends either with all configured steps in
\* completed_steps or by raising at the first step that raised: once a step
\* raises, no later step is started in that run.
C14_AllCompletedOrAborted ==
    [][/\ RunAllEnds => (Range(state'.completed_steps) = Steps \/ raised'.step # 0)
       /\ RaisesInRunAll => (pc' = "idle" /\ mode' = "none" /\ started_steps' = <<>>)]_vars

RECURSIVE SumSeq(_)
SumSeq(q) == IF Len(q) = 0 THEN 0 ELSE Head(q) + SumSeq(Tail(q))

RECURSIVE SumPowers(_)
SumPowers(k) == IF k = 0 THEN 0 ELSE 2^k + SumPowers(k - 1)

\* The last _connect made k attempts that failed with an operational error
\* and then one that connected.
FailedThenConnected(k) ==
    /\ Len(attempt_log) = k + 1
    /\ attempt_log[k + 1] = "connected"
    /\ \A i \in 1..k : attempt_log[i] = OperationalError

\* C15: a connection that fails with an operational error exactly k times,
\* k < MAX_RETRIES, and then succeeds, returns without raising, and has slept
\* 2^i seconds after failed attempt i, sum(2^i for i in 1..k) in total.
C15_BackoffThenConnected ==
    \A k \in 0..(MAX_RETRIES - 1) :
        FailedThenConnected(k) =>
            /\ db_raised.by \notin {"_load_credentials", "_connect"}
            /\ db_pc \in {"scope", "leaving"} => connection # NoConnection
            /\ Len(slept) = k
            /\ \A i \in 1..k : slept[i] = 2^i
            /\ SumSeq(slept) = SumPowers(k)

\* Two attempts failed and the third connected: the scope is entered after 2 + 4 seconds.
C15_Witness ==
    /\ FailedThenConnected(2)
    /\ db_pc = "scope"
    /\ slept = <<2, 4>>
    /\ connection # NoConnection

\* Every attempt of the last _connect, which is over, failed with an operational error.
AllAttemptsFailed ==
    /\ db_pc # "connect"
    /\ Len(attempt_log) >= 1
    /\ \A i \in 1..Len(attempt_log) : attempt_log[i] = OperationalError

\* C16: when every attempt fails with an operational error, _connect makes
\* exactly MAX_RETRIES attempts, sleeps between attempts only (not after the
\* last), and raises the operational error, with no connection set.
C16_RetriesExhausted ==
    /\ [](AllAttemptsFailed =>
             /\ Len(attempt_log) = MAX_RETRIES
             /\ Len(slept) = MAX_RETRIES - 1
             /\ \A i \in 1..Len(slept) : slept[i] = 2^i
             /\ connection = NoConnection
             /\ db_pc = "out")
    /\ [](db_pc = "connect" =>
             /\ attempt = Len(attempt_log) + 1
             /\ Len(slept) = Len(attempt_log))
    /\ [][(~AllAttemptsFailed /\ AllAttemptsFailed') =>
             db_raised' = Raised(OperationalError, "_connect")]_vars

C16_Witness ==
    /\ AllAttemptsFailed
    /\ Len(attempt_log) = MAX_RETRIES
    /\ db_raised = Raised(OperationalError, "_connect")

\* C17: only operational failures are retried.  A connection attempt that
\* fails with another error ends _connect with that error, with no sleep
\* after it and no further attempt; a query that fails is sent once, and its
\* error leaves the scope with no sleep and no connection attempt.
C17_OnlyOperationalRetried ==
    /\ [](\A n \in 1..Len(attempt_log) :
             attempt_log[n] \notin {"connected", OperationalError} =>
                 /\ n = Len(attempt_log)
                 /\ db_pc = "out"
                 /\ Len(slept) = n - 1
                 /\ connection = NoConnection)
    /\ [][(db_pc = "connect" /\ attempt_log' # attempt_log
              /\ attempt_log'[Len(attempt_log')] \notin {"connected", OperationalError}) =>
             /\ db_raised' = Raised(attempt_log'[Len(attempt_log')], "_connect")
             /\ slept' = slept]_vars
    /\ [][(db_raised'.by = "execute" /\ db_raised'.exc # "RuntimeError"
              /\ body_exc' # body_exc) =>
             /\ queries' = queries + 1
             /\ db_pc' = "leaving"
             /\ body_exc' = db_raised'.exc
             /\ slept' = slept
             /\ attempt_log' = attempt_log]_vars

\* The second attempt failed with a programming error after one retry.
C17_Witness ==
    /\ attempt_log = <<OperationalError, ProgrammingError>>
    /\ slept = <<2>>
    /\ db_pc = "out"
    /\ db_raised = Raised(ProgrammingError, "_connect")

\* The credential file has a line that begins with the key.
HasEntry(f, key) ==
    \E i \in 1..Len(f.lines) : startswith(strip(f.lines[i]), key)

BadCredentials(f) == ~f.exists \/ ~HasEntry(f, User) \/ ~HasEntry(f, Password)

\* C18: with the credential file missing, or without a user or a password
\* entry, entering the scope raises before any connection attempt, with no
\* sleep: the object never gets to connect.
C18_CredentialsFailFast ==
    /\ BadCredentials(credential_file) =>
          /\ db_pc = "out"
          /\ opened = 0
          /\ connection = NoConnection
          /\ attempt_log = <<>>
          /\ slept = <<>>
          /\ db_raised.by \in {"none", "_load_credentials", "execute"}
    /\ db_raised.by = "_load_credentials" =>
          /\ db_raised.exc \in {"FileNotFoundError", "ValueError", "IndexError"}
          /\ ~credential_file.exists => db_raised.exc = "FileNotFoundError"
          /\ attempt = 0
          /\ attempt_log = <<>>
          /\ slept = <<>>
          /\ db_pc = "out"

\* Entering raised ValueError on a file with a user and no password entry.
C18_Witness ==
    /\ db_raised = Raised("ValueError", "_load_credentials")
    /\ credential_file.exists
    /\ HasEntry(credential_file, User)
    /\ ~HasEntry(credential_file, Password)

\* C19: a scope that was entered holds the connection open; when it is left,
\* by return or by an exception, the connection has been closed exactly once
\* and the handle is cleared; through DatabaseAnalytics as through Database,
\* __exit__ gets the exception of the body.
C19_ScopedConnection ==
    /\ \A h \in 1..opened : closes[h] <= 1
    /\ Len(closes) = opened
    /\ db_pc \in {"scope", "leaving"} =>
          /\ connection = opened
          /\ connection # NoConnection
          /\ closes[connection] = 0
          /\ \A h \in 1..(opened - 1) : closes[h] = 1
          /\ exit_args = NoException
    /\ db_pc \in {"out", "connect"} =>
          /\ connection = NoConnection
          /\ \A h \in 1..opened : closes[h] = 1
    /\ db_pc = "out" => exit_args = body_exc

\* Two scopes of a DatabaseAnalytics were left, the second by an exception.
C19_Witness ==
    /\ via = "DatabaseAnalytics"
    /\ db_pc = "out"
    /\ opened = 2
    /\ closes = <<1, 1>>
    /\ body_exc = "ValueError"
    /\ exit_args = "ValueError"
    /\ connection = NoConnection

\* The count a query result reports for editor e (0: no row for e).
CountIn(results, e) ==
    IF \E j \in 1..Len(results) : results[j].actor_name = e
    THEN results[CHOOSE j \in 1..Len(results) : results[j].actor_name = e].count
    ELSE 0

RECURSIVE SumReported(_, _)
SumReported(rs, e) ==
    IF Len(rs) = 0 THEN 0 ELSE CountIn(Head(rs), e) + SumReported(Tail(rs), e)

Kept(e) == ~is_ip_address(e) /\ ~is_bot(e)

\* C20 (as stated): the tally a call returns for a language holds, for every
\* editor kept by the filters, the sum over all batches of the count
\* reported for that editor in the batch.
C20_BatchesMergedAdditively ==
    p_result.returned =>
        \A e \in {Alice, Carol, SomeBot, Address} :
            (Kept(e) /\ SumReported(replies, e) > 0) =>
                /\ e \in DOMAIN p_result.value
                /\ p_result.value[e] = SumReported(replies, e)

\* The mocked query returns identical rows on every call.
IdenticalReplies ==
    /\ Len(replies) >= 1
    /\ \A i \in 1..Len(replies) : replies[i] = replies[1]

\* The tally of a single unbatched call whose one query returns rows.
Unbatched(rows) == patch_rows(EmptyDict, rows)

\* The number of calls of process_language the call makes.
LanguageCalls ==
    IF InOuterLoop THEN Len(_batch_titles(p_call.titles, p_call.batch_size)) ELSE 1

\* C21 (as stated): for a title list processed in several batches, the merged
\* tally equals the tally of a single unbatched call when the query returns
\* identical rows on every call.
C21_BatchedEqualsUnbatched ==
    (p_result.returned /\ IdenticalReplies) =>
        p_result.value = Unbatched(replies[1])

\* C21 (amended): when the query returns identical rows on every call, the
\* tally holds each editor of the unbatched tally with the unbatched count
\* once per call of process_language: the tally of process_language over
\* several batches equals the unbatched tally, and the tally of
\* _process_titles_for_language over n batches is n times the unbatched one.
C21_UnbatchedPerLanguageCall ==
    (p_result.returned /\ IdenticalReplies) =>
        p_result.value =
            [e \in DOMAIN Unbatched(replies[1]) |->
                LanguageCalls * Unbatched(replies[1])[e]]

C21_Witness ==
    /\ p_result.returned
    /\ InOuterLoop
    /\ replies = <<(<<Row(Alice, 2), Row(SomeBot, 3)>>),
                   (<<Row(Alice, 2), Row(SomeBot, 3)>>),
                   (<<Row(Alice, 2), Row(SomeBot, 3)>>)>>
    /\ p_result.value = [e \in {Alice} |-> 6]

\* A step of the batch loop in which db.execute raises: a batch is due and no
\* reply is recorded.
BatchFails ==
    /\ p_pc = "patch"
    /\ patch_num <= Len(patch_batches)
    /\ replies' = replies

\* C22: a failure in any batch aborts the whole language: the call raises,
\* no tally is returned (not even the one accumulated from earlier batches),
\* no later batch is queried, and the connection held for the language is
\* released.
C22_BatchFailureAborts ==
    /\ [][BatchFails =>
            /\ p_pc' = "raised"
            /\ p_result'.exc \in QueryErrors
            /\ p_scope' = "closed"]_vars
    /\ [](p_pc = "raised" =>
            /\ ~p_result.returned
            /\ p_result.value = EmptyDict
            /\ p_scope # "open")
    /\ [][p_pc = "raised" => UNCHANGED processor_vars]_vars

C22_Witness ==
    /\ p_pc = "raised"
    /\ p_result = RaisedBy(OperationalError)
    /\ patch_editors = [e \in {Alice} |-> 1]
    /\ Len(replies) = 1
    /\ Len(patch_batches) = 3
    /\ p_scope = "closed"

\* The editor names of the rows of a query result.
Reported(rows) == {rows[j].actor_name : j \in 1..Len(rows)}

\* C23: an editor identity that matches the IPv4 or the IPv6 literal pattern
\* is never a key of a tally the call returns, whatever count its row reports.
C23_NoAddressInTally ==
    p_result.returned =>
        \A e \in DOMAIN p_result.value : ~ipv4_pattern(e) /\ ~ipv6_pattern(e)

C23_Witness ==
    /\ p_result.returned
    /\ \E i \in 1..Len(replies) : {Address, Address6} \subseteq Reported(replies[i])
    /\ p_result.value = [e \in {Carol} |-> 1]

\* C24: an editor identity that contains "bot" in any letter case is never
\* a key of a tally the call returns.
C24_NoBotInTally ==
    p_result.returned =>
        \A e \in DOMAIN p_result.value : ~contains(lower(e), <<"b", "o", "t">>)

C24_Witness ==
    /\ p_result.returned
    /\ \E i \in 1..Len(replies) : SomeBot \in Reported(replies[i])
    /\ p_result.value = [e \in {Alice} |-> 2]

\* The sum of editor e's counts over the language tallies of items.
RECURSIVE SumOverLanguages(_, _)
SumOverLanguages(items, e) ==
    IF Len(items) = 0 THEN 0
    ELSE (IF e \in DOMAIN Head(items).editors THEN Head(items).editors[e] ELSE 0)
         + SumOverLanguages(Tail(items), e)

\* The orders in which n languages can be merged.
Orders(n) == {f \in [1..n -> 1..n] : \A i, j \in 1..n : i # j => f[i] # f[j]}

Summarised == o_call.fn = "run_complete_workflow" /\ o_result = ReturnCode(0)

\* C25: aggregate_editors returns, for every editor appearing in any
\* language tally, the sum of that editor's counts over all languages, and
\* contains no other editor; the result does not depend on the order in
\* which the languages are merged.
C25_AggregateSums ==
    Summarised =>
        /\ DOMAIN o_global =
               UNION {DOMAIN o_all_editors[i].editors : i \in 1..Len(o_all_editors)}
        /\ \A e \in DOMAIN o_global : o_global[e] = SumOverLanguages(o_all_editors, e)
        /\ \A f \in Orders(Len(o_all_editors)) :
               aggregate_editors([i \in 1..Len(o_all_editors) |-> o_all_editors[f[i]]])
                   = o_global

C25_Witness ==
    /\ Summarised
    /\ Len(o_all_editors) = 2
    /\ o_all_editors[1].editors = [e \in {Alice} |-> 1]
    /\ o_global = [e \in {Alice, Carol} |-> 3]

\* Two database names are the same up to the "_p" of the replica databases.
SameDatabase(a, b) == removesuffix(a, Suffix_p) = removesuffix(b, Suffix_p)

\* C26 (as stated): the resolution of a database target is total and consults
\* its sources in a fixed order: a language code in a static exception table
\* resolves to the table's database name regardless of the dynamic mapping,
\* otherwise to the dynamic mapping's name when it has one, otherwise to the
\* default {code}wiki_p; it never fails to produce a name.
C26_ResolutionOrder ==
    site_code # <<>> =>
        /\ target.exc = NoException
        /\ target.database # <<>>
        /\ IF site_code = Meta
           THEN target.database = Meta_p
           ELSE IF site_code \in DOMAIN pre_defined_db_mapping
           THEN SameDatabase(target.database, pre_defined_db_mapping[site_code])
           ELSE IF /\ site_code \in DOMAIN mapping_cache.mapping
                   /\ mapping_cache.mapping[site_code] # <<>>
           THEN target.database = mapping_cache.mapping[site_code]
           ELSE target.database = site_code \o Wiki_p

\* The loop over the languages is over: it ran to its end or an exception
\* left it.
LanguagesOver ==
    \/ o_pc \in {"step3", "summary"}
    \/ o_pc = "done" /\ o_call.fn = "run_complete_workflow" /\ 3 \in Range(o_invoked)
    \/ o_pc = "done" /\ o_call.fn = "process_languages"

\* The visit of a language met a data error: no database mapping, an empty
\* title list, or a failure of its processing.
DataError(l) == l.end = "no mapping" \/ l.titles = <<>> \/ l.end = "failed"

\* C27 (as stated): during language processing a data error is recovered
\* locally: a language that has no database mapping, an empty title list, or
\* whose processing fails is skipped and gets no entry in the result, and
\* every remaining language is still processed.
C27_DataErrorsSkipped ==
    LanguagesOver =>
        /\ Len(o_log) = Len(o_call.langs)
        /\ \A i \in 1..Len(o_log) :
               DataError(o_log[i]) => ~HasItem(o_all_editors, o_log[i].lang)

FailsInBody == pc = "body" /\ last_call'.op = "log_error"

BatchedStrategy ==
    /\ p_pc # "process_language" =>
           /\ p_pc = "raised" \/ patch_batches = _batch_titles(p_call.titles, p_call.batch_size)
           /\ Len(replies) <= Len(patch_batches)
    /\ p_pc = "returned" => Len(replies) = Len(patch_batches)
    /\ p_scope = "open" <=> p_pc = "patch"

\* A call of process_language with the direct strategy that has ended: it
\* returned the rows of its one query, or raised what the connection or
\* the query raised.
DirectStrategy ==
    /\ p_pc = "returned" => Len(replies) = 1
    /\ p_pc = "raised" => p_result.exc \in QueryErrors
    /\ p_pc \in {"process_language", "returned", "raised"}

\* C30: for language ar or en, process_language uses the direct strategy,
\* which issues exactly one query that does not depend on the supplied
\* titles; for every other language it uses the batched strategy, which
\* issues exactly one query per batch, all on the one connection opened for
\* that language.
C30_StrategySelection ==
    p_call.fn = "process_language" =>
        IF p_call.lang \in DirectLanguages THEN DirectStrategy ELSE BatchedStrategy

\* The batches one after the other.
RECURSIVE Concatenation(_)
Concatenation(bs) ==
    IF bs = <<>> THEN <<>> ELSE Head(bs) \o Concatenation(Tail(bs))

\* bs partitions ts into ceil(n/b) batches of size b, the last one possibly
\* smaller.
Partitions(bs, ts, b) ==
    /\ Len(bs) = (Len(ts) + b - 1) \div b
    /\ \A i \in 1..Len(bs) :
           /\ Len(bs[i]) >= 1
           /\ Len(bs[i]) <= b
           /\ i < Len(bs) => Len(bs[i]) = b
    /\ Concatenation(bs) = ts

\* C31: _batch_titles partitions n titles with batch size b into ceil(n/b)
\* batches, every batch of size b except possibly a smaller last one, whose
\* concatenation in order is the original list; an empty title list gives no
\* batch and therefore no query.
C31_BatchTitlesPartition ==
    /\ p_pc = "patch" => Partitions(patch_batches, pl_titles, pl_batch_size)
    /\ (p_call.fn = "process_language" /\ p_call.titles = <<>>) =>
           /\ p_pc = "patch" => patch_batches = <<>>
           /\ replies = <<>>
           /\ p_pc = "raised" => p_result.exc \notin {ProgrammingError}

C31_Witness ==
    /\ p_call.fn = "process_language"
    /\ Len(p_call.titles) = 5
    /\ p_call.batch_size = 2
    /\ p_pc = "patch"
    /\ [i \in 1..Len(patch_batches) |-> Len(patch_batches[i])] = <<2, 2, 1>>
    /\ patch_num = 3

\* run_all(force_from_step = n) is called: the reset it begins with.
ForcedCall == pc = "idle" /\ pc' = "call" /\ last_call'.op = "reset_from_step"

\* run_all returns to its caller without an exception.
RunAllReturns ==
    /\ mode = "run_all"
    /\ pc' = "idle"
    /\ last_call'.op \notin {"_load_state", "log_error"}
    /\ raised' = NoRaise

\* The steps from n on, in order.
StepsFrom(n) == [i \in 1..(TOTAL_STEPS + 1 - n) |-> n + i - 1]

\* Step k is completed, with its stored data.
Stored(s, k) == <<k \in Range(s.completed_steps), Get(s.step_data, str(k))>>

\* C32: run_all(force_from_step=n) re-executes step n and every later step
\* even when they were completed before, executes no step below n, and keeps
\* the completed-step membership and stored data of every step below n.
\* The run starts the steps from n on in order, skipping none; it has run
\* them all when it returns; and when it resets completed steps, only the
\* failure of a started step (or the end of the process) stops it.
C32_ForcedRunReexecutes ==
    /\ [][ForcedCall =>
             /\ start_step' = last_call'.step
             /\ forced_completed' = {k \in Completed : k >= start_step'}
             /\ \A k \in Steps : k < start_step' => Stored(state', k) = Stored(state, k)]_vars
    /\ [](mode = "run_all" =>
             /\ Len(started_steps) <= TOTAL_STEPS + 1 - start_step
             /\ \A i \in 1..Len(started_steps) : started_steps[i] = start_step + i - 1)
    /\ [][mode = "run_all" /\ mode' = "run_all" =>
             \A k \in Steps : k < start_step => Stored(state', k) = Stored(state, k)]_vars
    /\ [][RunAllReturns =>
             /\ started_steps = StepsFrom(start_step)
             /\ forced_completed \subseteq Range(started_steps)
             /\ \A k \in Steps : k < start_step => Stored(state', k) = Stored(state, k)
             /\ \A k \in Steps : k >= start_step => k \in Range(state'.completed_steps)]_vars
    /\ [][(mode = "run_all" /\ forced_completed # {} /\ pc' = "idle") =>
             raised' = NoRaise \/ raised'.started]_vars

C32_Witness ==
    /\ mode = "run_all"
    /\ start_step = 2
    /\ forced_completed = {2, 3}
    /\ started_steps = <<2, 3>>
    /\ pc = "complete"
    /\ cur = 3
    /\ Completed = {1, 2}

\* C33: a step function invoked without force on a step already in
\* completed_steps returns the stored step data and leaves the whole workflow
\* state unchanged (no start mark, no new error entry, no data overwrite); in
\* particular run_all(resume=True) on a state where all steps are completed
\* executes no step.
C33_CompletedStepRerunSafe ==
    /\ [][(pc = "idle" /\ pc' = "return") =>
             /\ ~force' /\ cur' \in Completed
             /\ result' = Get(state.step_data, str(cur'))
             /\ UNCHANGED <<state, file, last_call>>]_vars
    /\ [][(pc = "return" /\ pc' = "idle" /\ last_call'.op # "_load_state") =>
             UNCHANGED <<state, file, last_call>>]_vars
    /\ [][(pc = "idle" /\ mode' = "run_step" /\ ~force') =>
             (cur' \in Completed <=> pc' = "return")]_vars
    /\ [][(pc = "idle" /\ pc' = "body" /\ ~force') => cur' \notin Completed]_vars
    /\ [][(pc = "idle" /\ Completed = Steps /\ mode' = "run_all") =>
             /\ pc' = "call"
             /\ last_call'.op \in {"reset", "reset_from_step"}]_vars

C33_Witness ==
    /\ pc = "return"
    /\ mode = "run_step"
    /\ cur = 2
    /\ Completed = Steps
    /\ result # None
    /\ result = Get(state.step_data, str(2))
    /\ last_call.op = "mark_step_completed"
    /\ last_call.step = 3

\* The persisted mapping file holds a mapping that is not empty.
PersistedMapping == DOMAIN load_db_mapping(mapping_file) # {}

FirstUncompleted ==
    CHOOSE k \in 1..(TOTAL_STEPS + 1) :
        /\ k \notin Completed
        /\ \A j \in 1..(k - 1) : j \in Completed

\* C38: under any sequence of run_all, run_step (forced or not) and reset
\* operations of the runner, completed_steps is always a contiguous prefix
\* {1..k} of the step numbers, so the resume point is always the smallest
\* step that is not completed.
C38_CompletedIsPrefix ==
    /\ Completed = 1..Cardinality(Completed)
    /\ Completed \subseteq Steps
    /\ get_resume_point(SM) = FirstUncompleted

C38_Witness ==
    /\ pc = "idle"
    /\ last_call.op = "reset_from_step"
    /\ last_call.step = 2
    /\ Completed = {1}
    /\ get_resume_point(SM) = 2
    /\ Len(state.errors) = 1

\* Every entry of a is in b at the same place.
StartsWith(b, a) == Len(a) <= Len(b) /\ SubSeq(b, 1, Len(a)) = a

\* A full reset: reset(), or the one run_all(resume=False) begins with.
FullReset == pc = "idle" /\ last_call'.op = "reset" /\ last_call'.step = 0

\* C39: the error log is append-only across step runs and reset_from_step:
\* every entry logged by an earlier failed attempt is still present, in
\* order, when a later run resumes; only a full reset (reset(), or run_all
\* with resume=False) empties it.
C39_ErrorLogAppendOnly ==
    /\ [][StartsWith(state'.errors, state.errors) \/ FullReset]_vars
    /\ [][FullReset => state'.errors = <<>>]_vars
    /\ [][last_call'.op = "reset_from_step" => state'.errors = state.errors]_vars
    /\ [](file.exists => file.doc.errors = state.errors)

C39_Witness ==
    /\ pc = "call"
    /\ mode = "run_all"
    /\ last_call.op = "reset_from_step"
    /\ last_call.step = 1
    /\ Len(state.errors) = 2
    /\ state.errors[1].step = 2
    /\ state.errors[2].step = 1

\* execute is called outside the scope and raises.
ExecuteOutside == db_pc = "out" /\ db_raised' # db_raised /\ db_raised'.by = "execute"

\* C40: a query can only run inside an open connection scope: execute raises
\* RuntimeError, without touching any connection, when called before the
\* scope is entered, after it has been left, or after connecting failed.
C40_ExecuteNeedsOpenScope ==
    /\ [](db_pc = "out" => connection = NoConnection)
    /\ [][ExecuteOutside =>
             /\ db_raised' = Raised("RuntimeError", "execute")
             /\ UNCHANGED <<connection, queries, opened, closes, db_pc, attempt_log>>]_vars
    /\ [][queries' > queries => (db_pc = "scope" /\ connection # NoConnection)]_vars

C40_Witness ==
    /\ db_pc = "out"
    /\ db_raised = Raised("RuntimeError", "execute")
    /\ opened = 1
    /\ closes = <<1>>
    /\ queries = 1
    /\ connection = NoConnection

\* The count of an editor in one language of all_editors, 0 when absent.
EditsIn(input, lang, editor) == ValueOf(ValueOf(input, lang, <<>>), editor, 0)

\* The position in all_editors of the first language where the editor has
\* the highest count.
BestLanguage(input, editor) ==
    CHOOSE i \in 1..Len(input) :
        /\ \A j \in 1..Len(input) :
               EditsIn(input, input[j].key, editor) <= EditsIn(input, input[i].key, editor)
        /\ \A j \in 1..(i - 1) :
               EditsIn(input, input[j].key, editor) < EditsIn(input, input[i].key, editor)

GlobalTotal(input, editor) ==
    SumSeq([i \in 1..Len(input) |-> EditsIn(input, input[i].key, editor)])

\* C34: every row of the global report shows its editor once, with the
\* language in which the editor has the highest per-language count (the
\* first such language of all_editors) and with that count, formatted with
\* thousands separators, whatever the editor's total over all languages is;
\* the rows follow these counts in non-increasing order and no row follows a
\* row with a count below 10.
C34_BestLanguageShown ==
    /\ \A i \in 1..Len(r_rows) :
           LET row == r_rows[i]
               best == BestLanguage(r_input, row.editor)
           IN  /\ \E l \in 1..Len(r_input) : EditsIn(r_input, r_input[l].key, row.editor) > 0
               /\ row.wiki = r_input[best].key
               /\ row.count = format_thousands(EditsIn(r_input, row.wiki, row.editor))
               /\ \A j \in 1..Len(r_rows) : r_rows[j].editor = row.editor => j = i
               /\ \A j \in 1..(i - 1) :
                      /\ EditsIn(r_input, r_rows[j].wiki, r_rows[j].editor)
                             >= EditsIn(r_input, row.wiki, row.editor)
                      /\ EditsIn(r_input, r_rows[j].wiki, r_rows[j].editor) >= 10
    /\ r_pc = "written" /\ r_rows # <<>> =>
           \/ EditsIn(r_input, r_rows[Len(r_rows)].wiki, r_rows[Len(r_rows)].editor) < 10
           \/ \A l \in 1..Len(r_input) : \A e \in 1..Len(r_input[l].value) :
                  \E j \in 1..Len(r_rows) : r_rows[j].editor = r_input[l].value[e].key

\* An editor with 12 edits in the first language and 1200 in the second is
\* shown with the second language and "1,200", not with the total 1,212.
C34_Witness ==
    /\ r_pc = "written"
    /\ Len(r_input) = 2
    /\ \E i \in 1..Len(r_rows) :
           /\ r_rows[i].editor = Al
           /\ r_rows[i].user = <<"A", " ", "l">>
           /\ r_rows[i].wiki = r_input[2].key
           /\ r_rows[i].count = <<"1", ",", "2", "0", "0">>
           /\ EditsIn(r_input, r_input[1].key, Al) = 12
           /\ GlobalTotal(r_input, Al) = 1212

\* The number of titles gathered for a language of the call.
TitleCount(lang) == Len(load_language_titles_safe(g_call.files, lang))

\* The position of the first occurrence of a language in languages_to_process.
FirstAt(lang) == CHOOSE i \in 1..Len(g_call.langs) :
                     g_call.langs[i] = lang /\ \A j \in 1..(i - 1) : g_call.langs[j] # lang

\* C36: with sort_descending the languages are visited in non-increasing
\* order of their number of titles, languages with as many titles in the
\* order of languages_to_process; with or without the sort each language of
\* the call is visited once, and a call that returns has visited them all.
C36_DescendingStableOrder ==
    /\ \A i, j \in 1..Len(g_order) :
           /\ g_order[i] \in Range(g_call.langs)
           /\ i # j => g_order[i] # g_order[j]
           /\ g_call.sort_descending /\ i < j =>
                  /\ TitleCount(g_order[i]) >= TitleCount(g_order[j])
                  /\ TitleCount(g_order[i]) = TitleCount(g_order[j])
                         => FirstAt(g_order[i]) < FirstAt(g_order[j])
    /\ g_pc \in {"process", "raised", "returned"} =>
           /\ Keys(languages_titles) = Range(g_call.langs)
           /\ \A i \in 1..Len(languages_titles) :
                  languages_titles[i].value
                      = load_language_titles_safe(g_call.files, languages_titles[i].key)
           /\ \A i \in 1..Len(g_order) : g_order[i] = languages_titles[i].key
    /\ g_pc = "returned" => Range(g_order) = Range(g_call.langs)

\* A descending call over es, de, fr, where es and fr have one title each and
\* de has two, returns after de, es, fr.
C36_Witness ==
    /\ g_pc = "returned"
    /\ g_call.sort_descending
    /\ g_call.langs = <<"es", "de", "fr">>
    /\ TitleCount("es") = 1 /\ TitleCount("fr") = 1 /\ TitleCount("de") = 2
    /\ g_order = <<"de", "es", "fr">>

\* An iteration of the loop of upload_all_reports has run.
Attempted == u_attempted' # u_attempted

\* C37: upload_all_reports attempts the report files one by one, each once;
\* an upload that fails or raises is counted as failed and the loop goes on;
\* every attempt is counted as a success or as a failure, and at the return
\* every file was attempted and success + failed = total = the number of
\* report files (all zero when there is none).
C37_EveryReportAttemptedOnce ==
    /\ [](/\ Len(u_attempted) <= Len(u_files)
          /\ u_attempted = SubSeq(u_files, 1, Len(u_attempted))
          /\ u_pc # "start" =>
                 /\ u_results.total = Len(u_files)
                 /\ u_results.success + u_results.failed = Len(u_attempted)
          /\ u_pc = "returned" =>
                 /\ u_attempted = u_files
                 /\ u_results.success + u_results.failed = u_results.total)
    /\ [][Attempted =>
              /\ u_attempted' = Append(u_attempted, u_files[Len(u_attempted) + 1])
              /\ u_pc' = "loop"
              /\ u_results'.success + u_results'.failed
                     = u_results.success + u_results.failed + 1]_vars
    /\ [][u_pc' = "returned" => ~Attempted /\ u_attempted = u_files]_vars

\* Three report files, one uploaded and two not: a failure was followed by
\* another attempt, and the call returned 1, 2, 3.
C37_Witness ==
    /\ u_pc = "returned"
    /\ Len(u_files) = 3
    /\ u_attempted = u_files
    /\ u_results = Results(1, 2, 3)
====
